---- MODULE Spec2Model ----
(***************************************************************************)
(* Model of the shenasa request pipeline: the API-key middleware, the      *)
(* fixed-window rate limiter (MemoryStore + createRateLimiter) and the     *)
(* two-tier CacheManager (in-process Map over the cacheEntry table).       *)
(* Times are JavaScript epoch milliseconds, TTLs are seconds.              *)
(***************************************************************************)
EXTENDS Integers, Sequences, FiniteSets, TLC

VARIABLES
    now,          \* Date.now()
    hits,         \* MemoryStore.hits : Map<string, {count, resetTime}>
    apiKeys,      \* table apiKey : key -> row
    requestLog,   \* table requestLog : row {apiKey, createdAt} -> number of such rows
    resp,         \* the response of the last request through the middleware chain
    sent,         \* per identifier: requests that reached the limiter since start
    memoryCache,  \* CacheManager.memoryCache : Map<string, {value, expiresAt}>
    cacheEntry,   \* table cacheEntry : key -> {value (JSON text), expiresAt}
    op,           \* the last call of a CacheManager method and what it returned
    prevOp,       \* the call before it
    peer,         \* a second CacheManager over the same table: its prefix and its Map
    mgr,          \* the last call of an ApiKeyManager method and what it returned
    out,          \* what the route handler did for the last request and answered
    deleted,      \* keys deleted through the cache and not set since: did L2 fail
    tasks,        \* the calls in flight: where each is suspended and what it holds
    obs           \* what the finished calls of a concurrent run observed

rlVars == <<hits, apiKeys, requestLog, resp, sent>>
cacheVars == <<memoryCache, cacheEntry, op, prevOp>>
appVars == <<peer, mgr, out, deleted, tasks, obs>>
vars == <<now, hits, apiKeys, requestLog, resp, sent, memoryCache, cacheEntry, op, prevOp,
          peer, mgr, out, deleted, tasks, obs>>

----------------------------------------------------------------------------
(* Bounds of the model *)

\* requests one identifier may send when it is the only one sending
MaxReq == 102
\* requests that reach the limiter in a run with several callers
MaxLight == 3
\* the clock of the rate-limiter runs takes the values 0..MaxSteps half windows
MaxSteps == 3
\* the clock of the cache runs takes 0..MaxHalfSecs half seconds, and one hour
MaxHalfSecs == 2
\* incrementUsage calls on one key in the runs of the ApiKeyManager
MaxUsage == 1
\* requests that reach the limiter in a run through the route handlers
MaxPath == 2
\* requests of one caller that are in flight together
MaxTasks == 3
\* runs of requests that one caller sends in a run across the window boundaries
MaxSends == 4

----------------------------------------------------------------------------
(* Program constants *)

StoreWindowMs == 60000
ConfigWindowMs == 3600000
ConfigMax == 100
HourMs == 60 * 60 * 1000

Tiers == {"FREE", "BASIC", "PREMIUM", "ENTERPRISE"}

rateLimitTiers ==
    [t \in Tiers |->
        CASE t = "FREE" -> [requests |-> 100, window |-> 3600000]
          [] t = "BASIC" -> [requests |-> 1000, window |-> 3600000]
          [] t = "PREMIUM" -> [requests |-> 10000, window |-> 3600000]
          [] t = "ENTERPRISE" -> [requests |-> 100000, window |-> 3600000]]

\* Map.set / upsert of a row, and removal of keys
put(m, k, e) == (k :> e) @@ m

drop(m, K) == [x \in DOMAIN m \ K |-> m[x]]

\* Math.floor(a / b)
CeilMutFloor(a, b) == a \div b

\* Math.ceil(a / b) for a >= 0, b > 0
Ceil(a, b) == (a + b - 1) \div b

Max(a, b) == IF a >= b THEN a ELSE b

----------------------------------------------------------------------------
(* Callers: the headers x-api-key, cf-connecting-ip and x-forwarded-for of   *)
(* a request ("" when absent).                                              *)

Clients ==
    {[apiKey |-> "", ip |-> "1.1.1.1", xff |-> ""],
     [apiKey |-> "", ip |-> "2.2.2.2", xff |-> ""],
     [apiKey |-> "", ip |-> "", xff |-> ""],
     [apiKey |-> "", ip |-> "", xff |-> " 8.8.8.8 , 10.0.0.1"],
     [apiKey |-> "", ip |-> "", xff |-> "9.9.9.9"],
     [apiKey |-> "kBasic", ip |-> "1.1.1.1", xff |-> ""],
     [apiKey |-> "kBasic", ip |-> "2.2.2.2", xff |-> ""],
     [apiKey |-> "kOff", ip |-> "1.1.1.1", xff |-> ""],
     [apiKey |-> "kGone", ip |-> "2.2.2.2", xff |-> ""],
     [apiKey |-> "kFull", ip |-> "2.2.2.2", xff |-> ""]}

\* rows of the apiKey table at start: an active BASIC key, a deactivated key and
\* an active FREE key that has used up its hour
InitApiKeys ==
    [k \in {"kBasic", "kOff", "kFull"} |->
        CASE k = "kBasic" ->
               [tier |-> "BASIC", isActive |-> TRUE, requestLimit |-> 1000,
                requestCount |-> 0, lastUsedAt |-> 0]
          [] k = "kOff" ->
               [tier |-> "PREMIUM", isActive |-> FALSE, requestLimit |-> 10000,
                requestCount |-> 0, lastUsedAt |-> 0]
          [] k = "kFull" ->
               [tier |-> "FREE", isActive |-> TRUE, requestLimit |-> 100,
                requestCount |-> 100, lastUsedAt |-> 0]]

\* rows of the requestLog table at start: the 100 lookups of the FREE key
InitRequestLog == [r \in {[apiKey |-> "kFull", createdAt |-> 0]} |-> 100]

RECURSIVE SumOver(_, _)
SumOver(f, S) ==
    IF S = {} THEN 0
    ELSE LET k == CHOOSE x \in S : TRUE IN f[k] + SumOver(f, S \ {k})

----------------------------------------------------------------------------
(* MemoryStore.increment *)

incrementMutNoReset(h, key, t) ==
    IF key \notin DOMAIN h \/ h[key].resetTime < t
    THEN [hits |-> [k \in DOMAIN h \cup {key} |->
                      IF k = key THEN [count |-> 1, resetTime |-> t + StoreWindowMs]
                      ELSE h[k]],
          totalHits |-> 1,
          timeToExpire |-> StoreWindowMs]
    ELSE [hits |-> [h EXCEPT ![key].count = @ + 1],
          totalHits |-> h[key].count + 1,
          timeToExpire |-> h[key].resetTime - t]

\* increment that counts on a copy of the entry: the Map keeps the old count
incrementMutShortWindow(h, key, t) ==
    IF key \notin DOMAIN h \/ h[key].resetTime <= t
    THEN [hits |-> [k \in DOMAIN h \cup {key} |->
                      IF k = key THEN [count |-> 1, resetTime |-> t + StoreWindowMs \div 2]
                      ELSE h[k]],
          totalHits |-> 1,
          timeToExpire |-> StoreWindowMs \div 2]
    ELSE [hits |-> [h EXCEPT ![key].count = @ + 1],
          totalHits |-> h[key].count + 1,
          timeToExpire |-> h[key].resetTime - t]

incrementMutLost(h, key, t) ==
    IF key \notin DOMAIN h \/ h[key].resetTime <= t
    THEN [hits |-> put(h, key, [count |-> 1, resetTime |-> t + StoreWindowMs]),
          totalHits |-> 1,
          timeToExpire |-> StoreWindowMs]
    ELSE [hits |-> h,
          totalHits |-> h[key].count + 1,
          timeToExpire |-> h[key].resetTime - t]

increment(h, key, t) ==
    IF key \notin DOMAIN h \/ h[key].resetTime <= t
    THEN [hits |-> [k \in DOMAIN h \cup {key} |->
                      IF k = key THEN [count |-> 1, resetTime |-> t + StoreWindowMs]
                      ELSE h[k]],
          totalHits |-> 1,
          timeToExpire |-> StoreWindowMs]
    ELSE [hits |-> [h EXCEPT ![key].count = @ + 1],
          totalHits |-> h[key].count + 1,
          timeToExpire |-> h[key].resetTime - t]

----------------------------------------------------------------------------
(* ApiKeyManager.validateApiKey: the rows of requestLog of the last hour    *)

recentRequests(log, key, t) ==
    SumOver(log, {r \in DOMAIN log : r.apiKey = key /\ r.createdAt >= t - HourMs})

\* validateApiKey answering isValid: true when the credential store fails
validateApiKeyMutFailOpen(keys, log, key, t, dbFails) ==
    IF dbFails THEN [isValid |-> TRUE, keys |-> keys, threw |-> FALSE]
    ELSE IF key \notin DOMAIN keys \/ ~keys[key].isActive
    THEN [isValid |-> FALSE, keys |-> keys, threw |-> FALSE]
    ELSE IF recentRequests(log, key, t) >= keys[key].requestLimit
    THEN [isValid |-> FALSE, keys |-> keys, threw |-> FALSE]
    ELSE [isValid |-> TRUE, keys |-> [keys EXCEPT ![key].lastUsedAt = t], threw |-> FALSE]

\* dbFails: a call of the credential store throws; the catch block returns
\* { isValid: false }
validateApiKey(keys, log, key, t, dbFails) ==
    IF dbFails THEN [isValid |-> FALSE, keys |-> keys, threw |-> FALSE]
    ELSE IF key \notin DOMAIN keys \/ ~keys[key].isActive
    THEN [isValid |-> FALSE, keys |-> keys, threw |-> FALSE]
    ELSE IF recentRequests(log, key, t) >= keys[key].requestLimit
    THEN [isValid |-> FALSE, keys |-> keys, threw |-> FALSE]
    ELSE [isValid |-> TRUE, keys |-> [keys EXCEPT ![key].lastUsedAt = t], threw |-> FALSE]

incrementUsage(keys, key, t, dbFails) ==
    IF dbFails \/ key \notin DOMAIN keys THEN keys
    ELSE [keys EXCEPT ![key].requestCount = @ + 1, ![key].lastUsedAt = t]

\* createApiKey: the row of a new key sk_<unique id> of the given tier
createApiKey(keys, key, tier) ==
    put(keys, key, [tier |-> tier, isActive |-> TRUE,
                    requestLimit |-> rateLimitTiers[tier].requests,
                    requestCount |-> 0, lastUsedAt |-> 0])

\* deactivateApiKey that reports success and writes nothing
deactivateApiKeyMutNoop(keys, key, dbFails) ==
    IF dbFails \/ key \notin DOMAIN keys THEN [keys |-> keys, ok |-> FALSE]
    ELSE [keys |-> keys, ok |-> TRUE]

\* deactivateApiKey; db.apiKey.update throws when it fails and when there is no
\* row with that key
deactivateApiKey(keys, key, dbFails) ==
    IF dbFails \/ key \notin DOMAIN keys THEN [keys |-> keys, ok |-> FALSE]
    ELSE [keys |-> [keys EXCEPT ![key].isActive = FALSE], ok |-> TRUE]

----------------------------------------------------------------------------
(* The rate limiting middleware *)

\* keyGenerator of the app: the identifier and the value left in c.rateLimitMax
keyGenerator(tier, apiKey, ip) ==
    [rateLimitMax |-> rateLimitTiers[tier].requests,
     key |-> IF apiKey # "" THEN "api:" \o apiKey
             ELSE "ip:" \o (IF ip # "" THEN ip ELSE "unknown")]

Ids == {keyGenerator("FREE", c.apiKey, c.ip).key : c \in Clients}

\* String.prototype.split(",")[0]
firstEntry(str) ==
    LET commas == {i \in 1..Len(str) : SubSeq(str, i, i) = ","}
    IN IF commas = {} THEN str
       ELSE SubSeq(str, 1, (CHOOSE i \in commas : \A j \in commas : i <= j) - 1)

\* String.prototype.trim
RECURSIVE trim(_)
trim(str) ==
    IF Len(str) > 0 /\ SubSeq(str, 1, 1) = " " THEN trim(SubSeq(str, 2, Len(str)))
    ELSE IF Len(str) > 0 /\ SubSeq(str, Len(str), Len(str)) = " "
    THEN trim(SubSeq(str, 1, Len(str) - 1))
    ELSE str

\* getClientKey, the limiter's own key function, used when the config has no
\* keyGenerator
getClientKey(c) ==
    IF c.apiKey # "" THEN "api:" \o c.apiKey
    ELSE LET forwarded == IF c.ip # "" THEN c.ip ELSE c.xff
         IN "ip:" \o (IF forwarded # "" THEN trim(firstEntry(forwarded)) ELSE "unknown")

NoResp ==
    [stage |-> "none", client |-> [apiKey |-> "", ip |-> "", xff |-> ""], tier |-> "FREE",
     key |-> "", status |-> 0, code |-> 0, next |-> FALSE,
     totalHits |-> 0, timeToExpire |-> 0, limit |-> 0, remaining |-> 0,
     reset |-> 0, retryAfter |-> -1, hadCounter |-> FALSE,
     before |-> [count |-> 0, resetTime |-> 0], at |-> 0]

\* the limit createRateLimiter compares with and reports: config.max
limiterMax(tier, rateLimitMax) == ConfigMax

\* totalHits > config.max
overLimitMutGeq(totalHits, max) == totalHits >= max

overLimit(totalHits, max) == totalHits > max

\* createRateLimiter's handler for a request of the given tier and credentials
rateLimiter(h, c, tier, apiKey, t) ==
    LET kg == keyGenerator(tier, apiKey, c.ip)
        inc == increment(h, kg.key, t)
        max == limiterMax(tier, kg.rateLimitMax)
        rejected == overLimit(inc.totalHits, max)
    IN [hits |-> inc.hits,
        resp |-> [stage |-> "limiter", client |-> c, tier |-> tier, key |-> kg.key,
                  status |-> IF rejected THEN 429 ELSE 200,
                  code |-> IF rejected THEN 42901 ELSE 0,
                  next |-> ~rejected,
                  totalHits |-> inc.totalHits,
                  timeToExpire |-> inc.timeToExpire,
                  limit |-> max,
                  remaining |-> Max(0, max - inc.totalHits),
                  reset |-> t + inc.timeToExpire,
                  retryAfter |-> IF rejected THEN Ceil(inc.timeToExpire, 1000) ELSE -1,
                  hadCounter |-> kg.key \in DOMAIN h,
                  before |-> IF kg.key \in DOMAIN h THEN h[kg.key]
                             ELSE [count |-> 0, resetTime |-> 0],
                  at |-> t]]

\* the traffic of a run with several callers: MaxLight requests in all
LightTraffic(s) == SumOver(s, Ids) <= MaxLight

\* the traffic of a run through the route handlers: MaxPath requests in all
PathTraffic(s) == SumOver(s, Ids) <= MaxPath

\* the traffic of a run with one caller: it sends up to MaxReq requests
HeavyTraffic(s) == \E k \in Ids : s[k] <= MaxReq /\ \A j \in Ids \ {k} : s[j] = 0

----------------------------------------------------------------------------
(* CacheManager.  A JavaScript value is a tuple of strings, null is <<>>;    *)
(* the JSON text of a value is the tuple <<"json">> \o its printed fields.   *)

Null == <<>>

Prefix == "shenasa"
DefaultTTL == 3600
WarmTTL == 7200

Keys == {"name:ali"}
Values == {<<"v1">>, <<"NaN">>}
TTLs == {-1, 0, 1}

\* table persianName: name -> <<gender, enName, popularity>>
persianName == [n \in {"ali"} |-> <<"MALE", "ali", "5">>]

\* a property whose value is undefined
isDefined(x) == x # "undefined"

\* JSON.stringify: NaN prints as null, an undefined property is left out
JSON_stringify(v) ==
    LET w == SelectSeq(v, isDefined)
    IN <<"json">> \o [i \in 1..Len(w) |-> IF w[i] = "NaN" THEN "null" ELSE w[i]]

JSON_parse(text) == Tail(text)

\* getKey of an instance constructed with options.prefix = prefix
getKeyOf(prefix, key) == IF prefix # "" THEN prefix \o ":" \o key ELSE key

\* getKey of the app's instance
getKey(key) == getKeyOf(Prefix, key)

\* a catch block of CacheManager: console.error, nothing is rethrown
swallowMutRethrow(failed) == failed

swallow(failed) == FALSE

\* ttl || this.defaultTTL, in seconds
ttlOrDefault(ttl) == IF ttl = 0 THEN DefaultTTL ELSE ttl

\* the L1 test of get: memoryItem.expiresAt > Date.now()
l1Live(item, t) == item.expiresAt > t

\* the L2 test of get: dbItem.expiresAt > new Date()
l2LiveMutAlways(row, t) == TRUE

l2Live(row, t) == row.expiresAt > t

\* CacheManager.get; l2Fails: db.cacheEntry.findUnique throws
getOf(prefix, mc, db, key, t, l2Fails) ==
    LET ck == getKeyOf(prefix, key) IN
    IF ck \in DOMAIN mc /\ l1Live(mc[ck], t)
    THEN [mc |-> mc, db |-> db, result |-> mc[ck].value, threw |-> FALSE]
    ELSE IF l2Fails
    THEN [mc |-> mc, db |-> db, result |-> Null, threw |-> swallow(TRUE)]
    ELSE IF ck \in DOMAIN db /\ l2Live(db[ck], t)
    THEN LET value == JSON_parse(db[ck].value)
         IN [mc |-> put(mc, ck, [value |-> value, expiresAt |-> db[ck].expiresAt]),
             db |-> db, result |-> value, threw |-> FALSE]
    ELSE [mc |-> mc, db |-> db, result |-> Null, threw |-> FALSE]

\* get of the app's instance
get(mc, db, key, t, l2Fails) == getOf(Prefix, mc, db, key, t, l2Fails)

\* the L1 write of set
setMemoryMutSkip(mc, ck, value, expiresAt) == mc

setMemory(mc, ck, value, expiresAt) ==
    put(mc, ck, [value |-> value, expiresAt |-> expiresAt])

\* db.cacheEntry.upsert
upsertMutKeepExpiry(db, ck, text, expiresAt) ==
    IF ck \in DOMAIN db THEN [db EXCEPT ![ck].value = text]
    ELSE put(db, ck, [value |-> text, expiresAt |-> expiresAt])

upsert(db, ck, text, expiresAt) == put(db, ck, [value |-> text, expiresAt |-> expiresAt])

\* set with the L1 write placed after the upsert, inside the try block
setMutMemoryAfterUpsert(mc, db, key, value, ttl, t, l2Fails) ==
    LET ck == getKey(key)
        expiresAt == t + ttlOrDefault(ttl) * 1000
    IN [mc |-> IF l2Fails THEN mc ELSE setMemory(mc, ck, value, expiresAt),
        db |-> IF l2Fails THEN db ELSE upsert(db, ck, JSON_stringify(value), expiresAt),
        result |-> Null,
        threw |-> IF l2Fails THEN swallow(TRUE) ELSE FALSE]

\* CacheManager.set; l2Fails: db.cacheEntry.upsert throws
setOf(prefix, mc, db, key, value, ttl, t, l2Fails) ==
    LET ck == getKeyOf(prefix, key)
        expiresAt == t + ttlOrDefault(ttl) * 1000
        serializedValue == JSON_stringify(value)
    IN [mc |-> setMemory(mc, ck, value, expiresAt),
        db |-> IF l2Fails THEN db ELSE upsert(db, ck, serializedValue, expiresAt),
        result |-> Null,
        threw |-> IF l2Fails THEN swallow(TRUE) ELSE FALSE]

\* set of the app's instance
set(mc, db, key, value, ttl, t, l2Fails) ==
    setOf(Prefix, mc, db, key, value, ttl, t, l2Fails)

\* delete that leaves the Map alone
deleteMutKeepMemory(mc, db, key, l2Fails) ==
    LET ck == getKey(key)
    IN [mc |-> mc,
        db |-> IF l2Fails \/ ck \notin DOMAIN db THEN db ELSE drop(db, {ck}),
        result |-> Null,
        threw |-> IF l2Fails \/ ck \notin DOMAIN db THEN swallow(TRUE) ELSE FALSE]

\* CacheManager.delete; db.cacheEntry.delete throws when it fails and when
\* there is no row with that key
delete(mc, db, key, l2Fails) ==
    LET ck == getKey(key)
    IN [mc |-> drop(mc, {ck}),
        db |-> IF l2Fails \/ ck \notin DOMAIN db THEN db ELSE drop(db, {ck}),
        result |-> Null,
        threw |-> IF l2Fails \/ ck \notin DOMAIN db THEN swallow(TRUE) ELSE FALSE]

\* CacheManager.clear: deleteMany({})
clear(mc, db, l2Fails) ==
    [mc |-> <<>>,
     db |-> IF l2Fails THEN db ELSE <<>>,
     result |-> Null,
     threw |-> IF l2Fails THEN swallow(TRUE) ELSE FALSE]

\* CacheManager.cleanExpired: deleteMany({ expiresAt: { lte: now } })
cleanExpired(mc, db, t, l2Fails) ==
    [mc |-> drop(mc, {k \in DOMAIN mc : mc[k].expiresAt <= t}),
     db |-> IF l2Fails THEN db ELSE drop(db, {k \in DOMAIN db : db[k].expiresAt <= t}),
     result |-> Null,
     threw |-> IF l2Fails THEN swallow(TRUE) ELSE FALSE]

\* the loop of warmCache over the popular names
RECURSIVE warmEach(_, _, _, _, _)
warmEach(names, mc, db, t, l2Fails) ==
    IF names = {} THEN [mc |-> mc, db |-> db, result |-> Null, threw |-> FALSE]
    ELSE LET n == CHOOSE x \in names : TRUE
             r == set(mc, db, "name:" \o n, persianName[n], WarmTTL, t, l2Fails)
             rest == warmEach(names \ {n}, r.mc, r.db, t, l2Fails)
         IN [rest EXCEPT !.threw = r.threw \/ rest.threw]

\* CacheManager.warmCache; readFails: db.persianName.findMany throws
warmCache(mc, db, t, readFails, l2Fails) ==
    IF readFails
    THEN [mc |-> mc, db |-> db, result |-> Null, threw |-> swallow(TRUE)]
    ELSE warmEach(DOMAIN persianName, mc, db, t, l2Fails)

----------------------------------------------------------------------------
(* The name lookup GET /name/:name *)

NameTTL == 3600
Names == {"ali", "zed"}

\* db.persianName.findFirst({ where: { name: { equals: name } } })
findFirst(name) == IF name \in DOMAIN persianName THEN persianName[name] ELSE Null

\* if (cached): the values stored under name:<name> are objects, null is absent
truthy(v) == v # Null

\* the name handler answering null for a name without a record
nameResultMutNull(data) == IF data # Null THEN <<data[1], data[2]>> ELSE Null

\* data ? { gender, enName } : { gender: null, enName: null }
nameResult(data) == IF data # Null THEN <<data[1], data[2]>> ELSE <<"null", "null">>

\* MetricsCollector.logRequest: db.requestLog.create in a try that only logs
logRequest(log, apiKey, t, fails) ==
    IF fails THEN log
    ELSE LET row == [apiKey |-> apiKey, createdAt |-> t]
         IN put(log, row, IF row \in DOMAIN log THEN log[row] + 1 ELSE 1)

\* which awaited calls of one request fail: none, one of them, or both calls of
\* the cacheEntry table
NoFault == [get |-> FALSE, origin |-> FALSE, log |-> FALSE, set |-> FALSE]
Faults ==
    {NoFault, [NoFault EXCEPT !.get = TRUE], [NoFault EXCEPT !.origin = TRUE],
     [NoFault EXCEPT !.log = TRUE], [NoFault EXCEPT !.set = TRUE],
     [NoFault EXCEPT !.get = TRUE, !.set = TRUE]}

\* the handler of GET /name/:name after the middleware chain
nameHandler(mc, db, log, name, apiKey, t, f) ==
    LET key == "name:" \o name
        cached == get(mc, db, key, t, f.get)
        data == findFirst(name)
        result == nameResult(data)
        stored == set(cached.mc, cached.db, key, result, NameTTL, t, f.set)
    IN IF truthy(cached.result)
       THEN [mc |-> cached.mc, db |-> cached.db, log |-> log, status |-> 200, code |-> 0,
             xCache |-> "HIT", body |-> cached.result, origin |-> 0, sets |-> 0,
             steps |-> <<"cache.get", "respond">>]
       ELSE IF f.origin
       THEN [mc |-> cached.mc, db |-> cached.db, log |-> log, status |-> 500,
             code |-> 50001, xCache |-> "", body |-> Null, origin |-> 1, sets |-> 0,
             steps |-> <<"cache.get", "findFirst", "respond">>]
       ELSE [mc |-> stored.mc, db |-> stored.db, log |-> logRequest(log, apiKey, t, f.log),
             status |-> 200, code |-> 0, xCache |-> "MISS", body |-> result,
             origin |-> 1, sets |-> 1,
             steps |-> <<"cache.get", "findFirst", "logRequest", "cache.set", "respond">>]

-----------------------------------------------------------------------------
(* Batch processing POST /batch.  A confidence is kept in hundredths.        *)

ChunkSize == 10
MaxNames == 100
MaxNameLen == 50
BatchTTL == 3600
ConfCached == 100
ConfFound == 95
ConfNone == 0

\* the names of a request body; an item also says whether findFirst throws for it
namesOf(items) == [i \in 1..Len(items) |-> items[i].name]

\* batchRequestSchema: names is an array of 1..100 strings of 1..50 characters
batchRequestSchema(names) ==
    /\ Len(names) >= 1 /\ Len(names) <= MaxNames
    /\ \A i \in 1..Len(names) : Len(names[i]) >= 1 /\ Len(names[i]) <= MaxNameLen

\* obj.gender, obj.enName, obj.popularity: the i-th property, undefined when the
\* object has none (or is null, read with ?.)
field(obj, i) == IF i <= Len(obj) THEN obj[i] ELSE "undefined"

falsy(x) == x \in {"", "null", "undefined", "0", "NaN"}

\* x || null
orNull(x) == IF falsy(x) THEN "null" ELSE x

\* x || 0
orZero(x) == IF falsy(x) THEN "0" ELSE x

\* select: { gender: true, enName: true, popularity: includePopularity }
selectRow(row, includePopularity) ==
    IF row = Null THEN Null
    ELSE IF includePopularity THEN row ELSE SubSeq(row, 1, 2)

\* the result of processName's catch block
degraded(name, includePopularity) ==
    [name |-> name, gender |-> "null", enName |-> "null",
     popularity |-> IF includePopularity THEN "0" ELSE "undefined",
     confidence |-> ConfNone]

\* processName after cache.get answered cached
processName(item, cached, mc, db, includePopularity, t, setFails) ==
    IF truthy(cached)
    THEN [mc |-> mc, db |-> db, served |-> "hit",
          result |-> [name |-> item.name, gender |-> field(cached, 1),
                      enName |-> field(cached, 2),
                      popularity |-> IF includePopularity THEN field(cached, 3)
                                     ELSE "undefined",
                      confidence |-> ConfCached]]
    ELSE IF item.fails
    THEN [mc |-> mc, db |-> db, served |-> "failed",
          result |-> degraded(item.name, includePopularity)]
    ELSE LET data == selectRow(findFirst(item.name), includePopularity)
             result == [name |-> item.name, gender |-> orNull(field(data, 1)),
                        enName |-> orNull(field(data, 2)),
                        popularity |-> IF includePopularity THEN orZero(field(data, 3))
                                       ELSE "undefined",
                        confidence |-> IF truthy(data) THEN ConfFound ELSE ConfNone]
             stored == set(mc, db, "name:" \o item.name,
                           <<field(data, 1), field(data, 2), field(data, 3)>>,
                           BatchTTL, t, setFails)
         IN IF truthy(data)
            THEN [mc |-> stored.mc, db |-> stored.db, served |-> "found", result |-> result]
            ELSE [mc |-> mc, db |-> db, served |-> "notfound", result |-> result]

\* the function f itself, as an explicit table
table(f) == f @@ <<>>

\* the state after calls that ran concurrently from the state base: an entry
\* that one of them wrote or replaced, else the entry of base
join(base, S) ==
    table([k \in DOMAIN base \cup UNION {DOMAIN m : m \in S} |->
        LET W == {m \in S : k \in DOMAIN m /\ (k \notin DOMAIN base \/ m[k] # base[k])}
        IN IF W = {} THEN base[k] ELSE (CHOOSE m \in W : TRUE)[k]])

\* await Promise.all(batch.map(processName)): every call runs up to its
\* cache.get before one of them goes on, so no cache.get of the chunk sees the
\* cache.set of a sibling
processChunk(batch, mc, db, includePopularity, t, f) ==
    LET I == 1..Len(batch)
        g == table([i \in I |-> get(mc, db, "name:" \o batch[i].name, t, f.get)])
        mc1 == join(mc, {g[i].mc : i \in I})
        r == table([i \in I |-> processName(batch[i], g[i].result, mc1, db,
                                            includePopularity, t, f.set)])
    IN [mc |-> join(mc1, {r[i].mc : i \in I}), db |-> join(db, {r[i].db : i \in I}),
        results |-> [i \in I |-> r[i].result], served |-> [i \in I |-> r[i].served]]

\* counting one error for a chunk that has any
countErrorsMutOne(batchResults) ==
    IF \E i \in 1..Len(batchResults) : batchResults[i].confidence = ConfNone THEN 1 ELSE 0

\* batchResults.forEach: errorCount++ for a result with confidence === 0.0
countErrors(batchResults) ==
    Cardinality({i \in 1..Len(batchResults) : batchResults[i].confidence = ConfNone})

\* the results of a chunk put in front of the earlier ones
pushResultsMutPrepend(results, batchResults) == batchResults \o results

\* results.push(...batchResults)
pushResults(results, batchResults) == results \o batchResults

min(a, b) == IF a <= b THEN a ELSE b

\* for (let i = 0; i < names.length; i += batchSize), i counted from 1
RECURSIVE chunkLoop(_, _, _, _, _, _)
chunkLoop(items, i, acc, includePopularity, t, f) ==
    IF i > Len(items) THEN acc
    ELSE LET batch == SubSeq(items, i, min(i + ChunkSize - 1, Len(items)))
             r == processChunk(batch, acc.mc, acc.db, includePopularity, t, f)
         IN chunkLoop(items, i + ChunkSize,
                      [mc |-> r.mc, db |-> r.db,
                       results |-> pushResults(acc.results, r.results),
                       served |-> acc.served \o r.served,
                       errorCount |-> acc.errorCount + countErrors(r.results)],
                      includePopularity, t, f)

\* zValidator and the handler of POST /batch after the middleware chain
batchHandler(mc, db, items, includePopularity, tier, t, f) ==
    LET names == namesOf(items)
        none == [mc |-> mc, db |-> db, results |-> <<>>, served |-> <<>>,
                 processedCount |-> 0, errorCount |-> 0]
        done == chunkLoop(items, 1, [mc |-> mc, db |-> db, results |-> <<>>,
                                     served |-> <<>>, errorCount |-> 0],
                          includePopularity, t, f)
    IN IF ~batchRequestSchema(names)
       THEN none @@ [status |-> 400, code |-> 40001]
       ELSE IF tier = "FREE"
       THEN none @@ [status |-> 403, code |-> 40303]
       ELSE IF Len(names) = 0 \/ Len(names) > MaxNames
       THEN none @@ [status |-> 400, code |-> 40001]
       ELSE [mc |-> done.mc, db |-> done.db, results |-> done.results,
             served |-> done.served, processedCount |-> Len(names),
             errorCount |-> done.errorCount, status |-> 200, code |-> 0]

-----------------------------------------------------------------------------
(* Health GET /health *)

Version == "2.0.0"
MemoryLimit == 90

\* Math.random() * 100, by its whole part: the ends of the range and both sides
\* of the limit
MemoryUsages == {0, MemoryLimit - 1, MemoryLimit, 99}

\* an overall status that is unhealthy as soon as one check fails
overallStatusMutStrict(dbStatus, cacheStatus, memoryStatus) ==
    IF dbStatus = "pass" /\ cacheStatus = "pass" /\ memoryStatus = "pass" THEN "healthy"
    ELSE "unhealthy"

overallStatus(dbStatus, cacheStatus, memoryStatus) ==
    IF dbStatus = "pass" /\ cacheStatus = "pass" /\ memoryStatus = "pass" THEN "healthy"
    ELSE IF dbStatus = "fail" THEN "unhealthy"
    ELSE "degraded"

\* the handler of GET /health; f.fetch: prismaClient.fetch throws, f.db:
\* persianName.findFirst throws, f.l2: cacheEntry.findUnique throws
healthHandler(mc, db, t, f, memoryUsage) ==
    LET dbStatus == IF f.db THEN "fail" ELSE "pass"
        cached == get(mc, db, "health-check", t, f.l2)
        cacheStatus == IF cached.threw THEN "fail" ELSE "pass"
        memoryStatus == IF memoryUsage < MemoryLimit THEN "pass" ELSE "fail"
    IN IF f.fetch
       THEN [mc |-> mc, status |-> 503,
             body |-> <<"unhealthy", Version, "fail", "fail", "fail">>]
       ELSE [mc |-> cached.mc, status |-> 200,
             body |-> <<overallStatus(dbStatus, cacheStatus, memoryStatus), Version,
                        dbStatus, cacheStatus, memoryStatus>>]

-----------------------------------------------------------------------------
(* Metrics GET /metrics and analytics GET /analytics *)

DayMs == 24 * HourMs
MetricsDays == 7
MetricsQueries == 7
AnalyticsQueries == 4
MaxRangeDays == 90

\* the handler of GET /metrics; fails: a query of getMetrics throws
metricsHandler(tier, log, t, fails) ==
    IF tier = "FREE"
    THEN [status |-> 403, code |-> 40301, queries |-> 0, total |-> 0]
    ELSE IF fails
    THEN [status |-> 500, code |-> 50001, queries |-> MetricsQueries, total |-> 0]
    ELSE [status |-> 200, code |-> 0, queries |-> MetricsQueries,
          total |-> SumOver(log, {r \in DOMAIN log :
                                    r.createdAt >= t - MetricsDays * DayMs})]

\* the query strings of GET /analytics: refused by the schema, without dates, a
\* range of 91 days, an end date in the future
AnalyticsQueryKinds == {"invalid", "plain", "long", "future"}

\* diffDays of a query with both dates
diffDays(q) == IF q = "long" THEN MaxRangeDays + 1 ELSE 1

\* the analytics handler that refuses the FREE tier only
analyticsHandlerMutBasic(tier, q, fails) ==
    IF q = "invalid" THEN [status |-> 400, code |-> 40001, queries |-> 0]
    ELSE IF tier = "FREE" THEN [status |-> 403, code |-> 40302, queries |-> 0]
    ELSE IF fails THEN [status |-> 500, code |-> 50001, queries |-> AnalyticsQueries]
    ELSE [status |-> 200, code |-> 0, queries |-> AnalyticsQueries]

\* zValidator and the handler of GET /analytics; fails: a query of getAnalytics
\* throws
analyticsHandler(tier, q, fails) ==
    IF q = "invalid" THEN [status |-> 400, code |-> 40001, queries |-> 0]
    ELSE IF tier = "FREE" \/ tier = "BASIC"
    THEN [status |-> 403, code |-> 40302, queries |-> 0]
    ELSE IF q # "plain" /\ diffDays(q) > MaxRangeDays
    THEN [status |-> 400, code |-> 40001, queries |-> 0]
    ELSE IF q = "future" THEN [status |-> 400, code |-> 40001, queries |-> 0]
    ELSE IF fails THEN [status |-> 500, code |-> 50001, queries |-> AnalyticsQueries]
    ELSE [status |-> 200, code |-> 0, queries |-> AnalyticsQueries]

\* no observation yet
NoObs ==
    [n |-> 0, windowEnd |-> 0, admitted |-> 0, total |-> 0, sends |-> 0, at |-> <<>>,
     last |-> <<"?">>, got |-> [result |-> <<>>, expect |-> <<"?">>], lookups |-> 0]

NoOp ==
    [name |-> "none", key |-> "", value |-> Null, ttl |-> 0, l2Fails |-> FALSE,
     result |-> Null, threw |-> FALSE, at |-> 0, over |-> Null]

\* the second CacheManager before any is constructed
NoPeer == [prefix |-> "", memoryCache |-> <<>>, made |-> FALSE]

NoCall ==
    [name |-> "none", key |-> "", dbFails |-> FALSE, isValid |-> FALSE, ok |-> FALSE,
     threw |-> FALSE, at |-> 0, off |-> {}]

\* what a route handler did and answered: status, error code, X-Cache, body,
\* the origin lookups and cache.set calls it made; for a batch the names sent,
\* the body's fields and how each item was served; seen and stored are the names
\* this process had stored (and when) before and after the request
NoOut ==
    [route |-> "none", name |-> "", status |-> 0, code |-> 0, xCache |-> "",
     body |-> Null, origin |-> 0, sets |-> 0, steps |-> <<>>, at |-> 0,
     input |-> <<>>, results |-> <<>>, served |-> <<>>, processedCount |-> 0,
     errorCount |-> 0, seen |-> <<>>, stored |-> <<>>,
     tier |-> "", includePopularity |-> FALSE, queries |-> 0, query |-> ""]

----------------------------------------------------------------------------
(* Actions *)

Init ==
    /\ now = 0
    /\ hits = <<>>
    /\ apiKeys = InitApiKeys
    /\ requestLog = InitRequestLog
    /\ resp = NoResp
    /\ sent = [k \in Ids |-> 0]
    /\ memoryCache = <<>>
    /\ cacheEntry = <<>>
    /\ op = NoOp
    /\ prevOp = NoOp
    /\ peer = NoPeer
    /\ mgr = NoCall
    /\ out = NoOut
    /\ deleted = <<>>
    /\ tasks = <<>>
    /\ obs = NoObs

\* the middleware letting a request whose key does not validate go on as FREE
RequestUnauthorizedMutDowngrade(c, dbFails) ==
    /\ c.apiKey # ""
    /\ LET v == validateApiKey(apiKeys, requestLog, c.apiKey, now, dbFails)
           rl == rateLimiter(hits, c, "FREE", "", now)
       IN /\ ~v.isValid
          /\ apiKeys' = v.keys
          /\ hits' = rl.hits
          /\ resp' = rl.resp
          /\ sent' = [sent EXCEPT ![rl.resp.key] = @ + 1]
    /\ UNCHANGED <<now, requestLog>>
    /\ UNCHANGED cacheVars
    /\ UNCHANGED appVars

\* The API-key middleware for a request whose x-api-key header does not
\* validate: 401, code 40101, next() is not called
Reject(c, dbFails) ==
    /\ c.apiKey # ""
    /\ LET v == validateApiKey(apiKeys, requestLog, c.apiKey, now, dbFails)
       IN /\ ~v.isValid
          /\ apiKeys' = v.keys
          /\ resp' = [NoResp EXCEPT !.stage = "auth", !.client = c, !.status = 401,
                                    !.code = 40101]
    /\ UNCHANGED <<hits, sent>>

\* A request with an x-api-key header that does not validate
RequestUnauthorized(c, dbFails) ==
    /\ Reject(c, dbFails)
    /\ UNCHANGED <<now, requestLog>>
    /\ UNCHANGED cacheVars
    /\ UNCHANGED appVars

\* The API-key middleware and the rate limiter for a request that is not
\* answered 401; dbFails: the update of incrementUsage throws
Admit(c, dbFails) ==
    LET v == IF c.apiKey = "" THEN [isValid |-> TRUE, keys |-> apiKeys]
             ELSE validateApiKey(apiKeys, requestLog, c.apiKey, now, FALSE)
        tier == IF c.apiKey = "" THEN "FREE" ELSE v.keys[c.apiKey].tier
        keys2 == IF c.apiKey = "" THEN apiKeys
                 ELSE incrementUsage(v.keys, c.apiKey, now, dbFails)
        rl == rateLimiter(hits, c, tier, c.apiKey, now)
    IN /\ v.isValid
       /\ apiKeys' = keys2
       /\ hits' = rl.hits
       /\ resp' = rl.resp
       /\ sent' = [sent EXCEPT ![rl.resp.key] = @ + 1]

\* A request that passes the API-key middleware and reaches the rate limiter
RequestLimited(c, dbFails) ==
    /\ Admit(c, dbFails)
    /\ UNCHANGED <<now, requestLog>>
    /\ UNCHANGED cacheVars
    /\ UNCHANGED appVars

\* a request of a run with several callers
Request(c, dbFails) ==
    /\ RequestLimited(c, dbFails)
    /\ LightTraffic(sent')

\* a request of a run with one caller
RequestBurst(c) ==
    /\ RequestLimited(c, FALSE)
    /\ HeavyTraffic(sent')

\* the instants of the limiter runs: half windows, and the last millisecond of
\* the first window
RLTimes == {(a * StoreWindowMs) \div 2 : a \in 0..MaxSteps} \cup {StoreWindowMs - 1}

\* time passes
Tick ==
    /\ \E t \in RLTimes : t > now /\ now' = t
    /\ UNCHANGED rlVars
    /\ UNCHANGED cacheVars
    /\ UNCHANGED appVars

Next ==
    \/ \E c \in Clients, f \in BOOLEAN : RequestUnauthorized(c, f)
    \/ \E c \in Clients, f \in BOOLEAN : Request(c, f)
    \/ Tick

Spec == Init /\ [][Next]_vars

NextRL ==
    \/ \E c \in Clients : RequestBurst(c)
    \/ Tick

SpecRL == Init /\ [][NextRL]_vars

\* the record of a call of a CacheManager method
Called(name, key, value, ttl, l2Fails, r) ==
    [name |-> name, key |-> key, value |-> value, ttl |-> ttl, l2Fails |-> l2Fails,
     result |-> r.result, threw |-> r.threw, at |-> now,
     over |-> IF name = "set" /\ op.name = "set" /\ op.key = key THEN op.value ELSE Null]

CacheGet(key, l2Fails) ==
    LET r == get(memoryCache, cacheEntry, key, now, l2Fails)
    IN /\ memoryCache' = r.mc
       /\ cacheEntry' = r.db
       /\ op' = Called("get", key, Null, 0, l2Fails, r)
       /\ prevOp' = op
       /\ UNCHANGED now
       /\ UNCHANGED rlVars
       /\ UNCHANGED appVars

CacheSet(key, value, ttl, l2Fails) ==
    LET r == set(memoryCache, cacheEntry, key, value, ttl, now, l2Fails)
    IN /\ memoryCache' = r.mc
       /\ cacheEntry' = r.db
       /\ op' = Called("set", key, value, ttl, l2Fails, r)
       /\ prevOp' = op
       /\ UNCHANGED now
       /\ UNCHANGED rlVars
       /\ UNCHANGED appVars

CacheDelete(key, l2Fails) ==
    LET r == delete(memoryCache, cacheEntry, key, l2Fails)
    IN /\ memoryCache' = r.mc
       /\ cacheEntry' = r.db
       /\ op' = Called("delete", key, Null, 0, l2Fails, r)
       /\ prevOp' = op
       /\ UNCHANGED now
       /\ UNCHANGED rlVars
       /\ UNCHANGED appVars

CacheClear(l2Fails) ==
    LET r == clear(memoryCache, cacheEntry, l2Fails)
    IN /\ memoryCache' = r.mc
       /\ cacheEntry' = r.db
       /\ op' = Called("clear", "", Null, 0, l2Fails, r)
       /\ prevOp' = op
       /\ UNCHANGED now
       /\ UNCHANGED rlVars
       /\ UNCHANGED appVars

CacheCleanExpired(l2Fails) ==
    LET r == cleanExpired(memoryCache, cacheEntry, now, l2Fails)
    IN /\ memoryCache' = r.mc
       /\ cacheEntry' = r.db
       /\ op' = Called("cleanExpired", "", Null, 0, l2Fails, r)
       /\ prevOp' = op
       /\ UNCHANGED now
       /\ UNCHANGED rlVars
       /\ UNCHANGED appVars

CacheWarm(readFails, l2Fails) ==
    LET r == warmCache(memoryCache, cacheEntry, now, readFails, l2Fails)
    IN /\ memoryCache' = r.mc
       /\ cacheEntry' = r.db
       /\ op' = Called("warmCache", "", Null, 0, readFails \/ l2Fails, r)
       /\ prevOp' = op
       /\ UNCHANGED now
       /\ UNCHANGED rlVars
       /\ UNCHANGED appVars

\* a new isolate: the module-level cache is constructed again over the same table
Restart ==
    /\ memoryCache' = <<>>
    /\ op' = [NoOp EXCEPT !.name = "restart", !.at = now]
    /\ prevOp' = op
    /\ UNCHANGED <<now, cacheEntry>>
    /\ UNCHANGED rlVars
    /\ UNCHANGED appVars

CacheTimes == {(a * 1000) \div 2 : a \in 0..MaxHalfSecs} \cup {DefaultTTL * 1000}

CacheTick ==
    /\ \E t \in CacheTimes : t > now /\ now' = t
    /\ UNCHANGED rlVars
    /\ UNCHANGED cacheVars
    /\ UNCHANGED appVars

NextCache ==
    \/ \E k \in Keys, f \in BOOLEAN : CacheGet(k, f)
    \/ \E k \in Keys, v \in Values, ttl \in TTLs, f \in BOOLEAN : CacheSet(k, v, ttl, f)
    \/ \E k \in Keys, f \in BOOLEAN : CacheDelete(k, f)
    \/ \E f \in BOOLEAN : CacheClear(f)
    \/ \E f \in BOOLEAN : CacheCleanExpired(f)
    \/ \E rf \in BOOLEAN, f \in BOOLEAN : CacheWarm(rf, f)
    \/ Restart
    \/ CacheTick

SpecCache == Init /\ [][NextCache]_vars

----------------------------------------------------------------------------
(* Calls of set, get and delete on two keys: which keys were deleted last *)

DelKeys == {"name:ali", "name:sara"}

DelSet(key, value, l2Fails) ==
    LET r == set(memoryCache, cacheEntry, key, value, DefaultTTL, now, l2Fails)
    IN /\ memoryCache' = r.mc
       /\ cacheEntry' = r.db
       /\ op' = Called("set", key, value, DefaultTTL, l2Fails, r)
       /\ prevOp' = op
       /\ deleted' = drop(deleted, {key})
       /\ UNCHANGED now
       /\ UNCHANGED rlVars
       /\ UNCHANGED <<peer, mgr, out, tasks, obs>>

DelDelete(key, l2Fails) ==
    LET r == delete(memoryCache, cacheEntry, key, l2Fails)
    IN /\ memoryCache' = r.mc
       /\ cacheEntry' = r.db
       /\ op' = Called("delete", key, Null, 0, l2Fails, r)
       /\ prevOp' = op
       /\ deleted' = put(deleted, key, l2Fails)
       /\ UNCHANGED now
       /\ UNCHANGED rlVars
       /\ UNCHANGED <<peer, mgr, out, tasks, obs>>

NextDel ==
    \/ \E k \in DelKeys, f \in BOOLEAN : CacheGet(k, f)
    \/ \E k \in DelKeys, v \in Values, f \in BOOLEAN : DelSet(k, v, f)
    \/ \E k \in DelKeys, f \in BOOLEAN : DelDelete(k, f)
    \/ Restart

SpecDel == Init /\ [][NextDel]_vars

----------------------------------------------------------------------------
(* A second CacheManager with another prefix over the same cacheEntry table *)

PeerPrefixes == {"", "other", "shenasa:name"}
IsoKeys == {"name:ali", "ali"}

\* what the app's instance writes and what the other instance writes
AppValues == {<<"app">>}
PeerValues == {<<"peer">>}

\* new CacheManager(db, { prefix })
NewPeer(prefix) ==
    /\ ~peer.made
    /\ prefix # Prefix
    /\ peer' = [prefix |-> prefix, memoryCache |-> <<>>, made |-> TRUE]
    /\ UNCHANGED now
    /\ UNCHANGED rlVars
    /\ UNCHANGED cacheVars
    /\ UNCHANGED <<mgr, out, deleted, tasks, obs>>

PeerGet(key, l2Fails) ==
    LET r == getOf(peer.prefix, peer.memoryCache, cacheEntry, key, now, l2Fails)
    IN /\ peer.made
       /\ peer' = [peer EXCEPT !.memoryCache = r.mc]
       /\ cacheEntry' = r.db
       /\ op' = Called("peer.get", key, Null, 0, l2Fails, r)
       /\ prevOp' = op
       /\ UNCHANGED <<now, memoryCache>>
       /\ UNCHANGED rlVars
       /\ UNCHANGED <<mgr, out, deleted, tasks, obs>>

PeerSet(key, value, l2Fails) ==
    LET r == setOf(peer.prefix, peer.memoryCache, cacheEntry, key, value, DefaultTTL,
                   now, l2Fails)
    IN /\ peer.made
       /\ peer' = [peer EXCEPT !.memoryCache = r.mc]
       /\ cacheEntry' = r.db
       /\ op' = Called("peer.set", key, value, DefaultTTL, l2Fails, r)
       /\ prevOp' = op
       /\ UNCHANGED <<now, memoryCache>>
       /\ UNCHANGED rlVars
       /\ UNCHANGED <<mgr, out, deleted, tasks, obs>>

NextIso ==
    \/ \E p \in PeerPrefixes : NewPeer(p)
    \/ \E k \in IsoKeys, f \in BOOLEAN : CacheGet(k, f)
    \/ \E k \in IsoKeys, v \in AppValues, f \in BOOLEAN : CacheSet(k, v, DefaultTTL, f)
    \/ \E k \in IsoKeys, f \in BOOLEAN : PeerGet(k, f)
    \/ \E k \in IsoKeys, v \in PeerValues, f \in BOOLEAN : PeerSet(k, v, f)

SpecIso == Init /\ [][NextIso]_vars

\* the other instance is constructed with a prefix that shares no key with the
\* app's one
FramePrefix == "other"

\* the instance that made the last call, and the keys of the table under the
\* prefix of an instance
callerPrefix(o) == IF o.name \in {"peer.get", "peer.set"} THEN peer.prefix ELSE Prefix

under(prefix) == {getKeyOf(prefix, k) : k \in IsoKeys}

\* the entries written at the start expire at the second instant
FrameTick ==
    /\ now < DefaultTTL * 1000
    /\ now' = DefaultTTL * 1000
    /\ UNCHANGED rlVars
    /\ UNCHANGED cacheVars
    /\ UNCHANGED appVars

NextFrame ==
    \/ NewPeer(FramePrefix)
    \/ \E k \in IsoKeys, v \in AppValues : CacheSet(k, v, DefaultTTL, FALSE)
    \/ \E f \in BOOLEAN : CacheClear(f)
    \/ \E f \in BOOLEAN : CacheCleanExpired(f)
    \/ \E k \in IsoKeys : PeerGet(k, FALSE)
    \/ \E k \in IsoKeys, v \in PeerValues : PeerSet(k, v, FALSE)
    \/ FrameTick

SpecFrame == Init /\ [][NextFrame]_vars

----------------------------------------------------------------------------
(* Calls of the ApiKeyManager methods *)

KeyNames == {"kBasic", "kOff", "kGone", "kFull"}
NewKey == "sk_1"

Validate(key, dbFails) ==
    LET v == validateApiKey(apiKeys, requestLog, key, now, dbFails)
    IN /\ apiKeys' = v.keys
       /\ mgr' = [name |-> "validate", key |-> key, dbFails |-> dbFails,
                  isValid |-> v.isValid, ok |-> v.isValid, threw |-> v.threw,
                  at |-> now, off |-> mgr.off]
       /\ UNCHANGED <<now, hits, requestLog, resp, sent>>
       /\ UNCHANGED cacheVars
       /\ UNCHANGED <<peer, out, deleted, tasks, obs>>

IncrementUsage(key, dbFails) ==
    /\ key \in DOMAIN apiKeys => apiKeys[key].requestCount < MaxUsage
    /\ apiKeys' = incrementUsage(apiKeys, key, now, dbFails)
    /\ mgr' = [name |-> "incrementUsage", key |-> key, dbFails |-> dbFails,
               isValid |-> FALSE, ok |-> ~dbFails /\ key \in DOMAIN apiKeys,
               threw |-> FALSE, at |-> now, off |-> mgr.off]
    /\ UNCHANGED <<now, hits, requestLog, resp, sent>>
    /\ UNCHANGED cacheVars
    /\ UNCHANGED <<peer, out, deleted, tasks, obs>>

Deactivate(key, dbFails) ==
    LET d == deactivateApiKey(apiKeys, key, dbFails)
    IN /\ apiKeys' = d.keys
       /\ mgr' = [name |-> "deactivate", key |-> key, dbFails |-> dbFails,
                  isValid |-> FALSE, ok |-> d.ok, threw |-> FALSE, at |-> now,
                  off |-> IF d.ok THEN mgr.off \cup {key} ELSE mgr.off]
       /\ UNCHANGED <<now, hits, requestLog, resp, sent>>
       /\ UNCHANGED cacheVars
       /\ UNCHANGED <<peer, out, deleted, tasks, obs>>

Create(tier) ==
    /\ NewKey \notin DOMAIN apiKeys
    /\ apiKeys' = createApiKey(apiKeys, NewKey, tier)
    /\ mgr' = [name |-> "create", key |-> NewKey, dbFails |-> FALSE,
               isValid |-> FALSE, ok |-> TRUE, threw |-> FALSE, at |-> now,
               off |-> mgr.off]
    /\ UNCHANGED <<now, hits, requestLog, resp, sent>>
    /\ UNCHANGED cacheVars
    /\ UNCHANGED <<peer, out, deleted, tasks, obs>>

\* the instants of these runs: the start, one hour later and the millisecond after
KeyTimes == {0, HourMs, HourMs + 1}

KeysTick ==
    /\ \E t \in KeyTimes : t > now /\ now' = t
    /\ UNCHANGED rlVars
    /\ UNCHANGED cacheVars
    /\ UNCHANGED appVars

NextKeys ==
    \/ \E k \in KeyNames \cup {NewKey}, f \in BOOLEAN : Validate(k, f)
    \/ \E k \in {"kBasic", "kGone"}, f \in BOOLEAN : IncrementUsage(k, f)
    \/ \E k \in KeyNames \cup {NewKey}, f \in BOOLEAN : Deactivate(k, f)
    \/ \E t \in {"FREE", "PREMIUM"} : Create(t)
    \/ KeysTick

SpecKeys == Init /\ [][NextKeys]_vars

----------------------------------------------------------------------------
(* Requests GET /name/:name through the whole chain *)

NameRequest(c, name, f) ==
    /\ Admit(c, FALSE)
    /\ PathTraffic(sent')
    /\ IF resp'.next
       THEN LET h == nameHandler(memoryCache, cacheEntry, requestLog, name, c.apiKey, now, f)
            IN /\ memoryCache' = h.mc
               /\ cacheEntry' = h.db
               /\ requestLog' = h.log
               /\ out' = [NoOut EXCEPT !.route = "name", !.name = name,
                                       !.status = h.status, !.code = h.code,
                                       !.xCache = h.xCache, !.body = h.body,
                                       !.origin = h.origin, !.sets = h.sets,
                                       !.steps = h.steps, !.at = now,
                                       !.seen = out.stored,
                                       !.stored = IF h.sets > 0
                                                  THEN put(out.stored, name, now)
                                                  ELSE out.stored]
       ELSE /\ UNCHANGED <<memoryCache, cacheEntry, requestLog>>
            /\ out' = [NoOut EXCEPT !.route = "name", !.name = name,
                                    !.status = resp'.status, !.code = resp'.code,
                                    !.at = now, !.seen = out.stored,
                                    !.stored = out.stored]
    /\ UNCHANGED <<now, op, prevOp, peer, mgr, deleted, tasks, obs>>

\* a new isolate: the module-level cache and the limiter's store start empty
NameRestart ==
    /\ memoryCache' = <<>>
    /\ hits' = <<>>
    /\ resp' = NoResp
    /\ out' = [NoOut EXCEPT !.route = "restart", !.at = now]
    /\ UNCHANGED <<now, apiKeys, requestLog, sent, cacheEntry, op, prevOp>>
    /\ UNCHANGED <<peer, mgr, deleted, tasks, obs>>

\* the instants of these runs: the start, the last millisecond of the TTL of an
\* entry stored at the start, and the end of that TTL
NameTimes == {0, NameTTL * 1000 - 1, NameTTL * 1000}

NameTick ==
    /\ \E t \in NameTimes : t > now /\ now' = t
    /\ UNCHANGED rlVars
    /\ UNCHANGED cacheVars
    /\ UNCHANGED appVars

\* the callers of the handler runs: a keyless one and one with a valid key
PathClients == {c \in Clients : c.ip = "1.1.1.1" /\ c.apiKey \in {"", "kBasic"}}

\* the callers whose key does not validate: inactive, unknown, used up
BadClients == {c \in Clients : c.apiKey \in {"kOff", "kGone", "kFull"}}

NextName ==
    \/ \E c \in PathClients, n \in Names, f \in Faults : NameRequest(c, n, f)
    \/ \E c \in BadClients, f \in BOOLEAN : RequestUnauthorized(c, f)
    \/ NameRestart
    \/ NameTick

SpecName == Init /\ [][NextName]_vars

-----------------------------------------------------------------------------
(* Batch requests, and name lookups that fill the cache before them *)

\* one request POST /batch through the middleware chain
BatchRequest(c, items, includePopularity, f) ==
    /\ Admit(c, FALSE)
    /\ PathTraffic(sent')
    /\ IF resp'.next
       THEN \E h \in {batchHandler(memoryCache, cacheEntry, items, includePopularity,
                                    resp'.tier, now, f)} :
            \E found \in {{items[i].name : i \in {j \in 1..Len(h.served) :
                                                       h.served[j] = "found"}}} :
               /\ memoryCache' = h.mc
               /\ cacheEntry' = h.db
               /\ out' = [NoOut EXCEPT !.route = "batch", !.status = h.status,
                                       !.code = h.code, !.at = now, !.input = items,
                                       !.includePopularity = includePopularity,
                                       !.tier = resp'.tier, !.results = h.results,
                                       !.served = h.served,
                                       !.processedCount = h.processedCount,
                                       !.errorCount = h.errorCount,
                                       !.seen = out.stored,
                                       !.stored = [n \in DOMAIN out.stored \cup found |->
                                                     IF n \in found THEN now
                                                     ELSE out.stored[n]]]
       ELSE /\ UNCHANGED <<memoryCache, cacheEntry>>
            /\ out' = [NoOut EXCEPT !.route = "batch", !.status = resp'.status,
                                    !.code = resp'.code, !.at = now, !.input = items,
                                    !.tier = resp'.tier,
                                    !.seen = out.stored, !.stored = out.stored]
    /\ UNCHANGED <<now, requestLog, op, prevOp, peer, mgr, deleted, tasks, obs>>

\* the items of a body: a name, and whether findFirst throws for it
Items == [name : Names, fails : BOOLEAN]

Ok(name) == [name |-> name, fails |-> FALSE]
Fails(name) == [name |-> name, fails |-> TRUE]

\* every body of one name and of two names
SmallBatches == [1..1 -> Items] \cup [1..2 -> Items]

\* a body of n names with a record, except at the positions P
Fill(n, P, special) == [i \in 1..n |-> IF i \in P THEN special ELSE Ok("ali")]

\* bodies of one full chunk, of a chunk and one name more, and of the largest
\* size, with the special items at their ends, on the chunk boundary, or
\* everywhere
BigBatches ==
    {Fill(n, P \cap 1..n, special) :
        n \in {ChunkSize, ChunkSize + 1, MaxNames},
        P \in {{}, {1}, {ChunkSize, ChunkSize + 1}, {1, ChunkSize, ChunkSize + 1, MaxNames},
               1..MaxNames},
        special \in {Fails("ali"), Ok("zed")}}

\* bodies the validator refuses: no name, too many names, an empty name
BadBatches == {<<>>, Fill(MaxNames + 1, {}, Ok("ali")), <<[name |-> "", fails |-> FALSE]>>}

Batches == SmallBatches \cup BigBatches \cup BadBatches

\* the cacheEntry table is reachable or not during one request
BatchFaults == {NoFault, [NoFault EXCEPT !.get = TRUE, !.set = TRUE]}

\* the instants of these runs: the start and the end of the TTL of an entry
\* stored at the start
BatchTimes == {0, NameTTL * 1000}

BatchTick ==
    /\ \E t \in BatchTimes : t > now /\ now' = t
    /\ UNCHANGED rlVars
    /\ UNCHANGED cacheVars
    /\ UNCHANGED appVars

\* the callers of these runs: the keyless one fills the cache with name lookups
\* and is refused batch processing, the one with a BASIC key sends the batches
FreeClient == CHOOSE c \in PathClients : c.apiKey = ""
PaidClient == CHOOSE c \in PathClients : c.apiKey = "kBasic"

\* the bodies sent without a key
FreeBatches == BadBatches \cup {<<Ok("ali")>>}

\* the runs end with their batch request
NextBatch ==
    /\ out.route # "batch"
    /\ \/ \E items \in Batches, p \in BOOLEAN, f \in BatchFaults :
             BatchRequest(PaidClient, items, p, f)
       \/ \E items \in FreeBatches : BatchRequest(FreeClient, items, FALSE, NoFault)
       \/ \E n \in Names : NameRequest(FreeClient, n, NoFault)
       \/ NameRestart
       \/ BatchTick

SpecBatch == Init /\ [][NextBatch]_vars

-----------------------------------------------------------------------------
(* Requests for the features of the paid tiers *)

\* the caller that presents the key made by the admin route
KeyClient == [apiKey |-> NewKey, ip |-> "1.1.1.1", xff |-> ""]

FeatClients == PathClients \cup {KeyClient}

\* MaxPath requests in all
FeatTraffic(s, keys) ==
    /\ PathTraffic(s)
    /\ NewKey \in DOMAIN keys =>
          SumOver(s, Ids) + keys[NewKey].requestCount <= MaxPath

MetricsRequest(c, fails) ==
    /\ Admit(c, FALSE)
    /\ FeatTraffic(sent', apiKeys')
    /\ \E h \in {metricsHandler(resp'.tier, requestLog, now, fails)} :
          out' = [NoOut EXCEPT !.route = "metrics", !.tier = resp'.tier, !.at = now,
                               !.status = IF resp'.next THEN h.status ELSE resp'.status,
                               !.code = IF resp'.next THEN h.code ELSE resp'.code,
                               !.queries = IF resp'.next THEN h.queries ELSE 0,
                               !.processedCount = IF resp'.next THEN h.total ELSE 0]
    /\ UNCHANGED <<now, requestLog, peer, mgr, deleted, tasks, obs>>
    /\ UNCHANGED cacheVars

AnalyticsRequest(c, q, fails) ==
    /\ Admit(c, FALSE)
    /\ FeatTraffic(sent', apiKeys')
    /\ \E h \in {analyticsHandler(resp'.tier, q, fails)} :
          out' = [NoOut EXCEPT !.route = "analytics", !.tier = resp'.tier, !.at = now,
                               !.query = q,
                               !.status = IF resp'.next THEN h.status ELSE resp'.status,
                               !.code = IF resp'.next THEN h.code ELSE resp'.code,
                               !.queries = IF resp'.next THEN h.queries ELSE 0]
    /\ UNCHANGED <<now, requestLog, peer, mgr, deleted, tasks, obs>>
    /\ UNCHANGED cacheVars

\* the bodies of these runs: a name with a record, one without, and the refused
FeatBatches == FreeBatches \cup {<<Ok("zed")>>}

FeatBatchRequest(c, items, p) ==
    /\ BatchRequest(c, items, p, NoFault)
    /\ FeatTraffic(sent', apiKeys')

\* the admin route makes the key of the third caller
FeatCreate(tier) ==
    /\ Create(tier)
    /\ out.route = "none"

NextFeat ==
    \/ \E c \in FeatClients, fails \in BOOLEAN : MetricsRequest(c, fails)
    \/ \E c \in FeatClients, q \in AnalyticsQueryKinds, fails \in BOOLEAN :
          AnalyticsRequest(c, q, fails)
    \/ \E c \in FeatClients, items \in FeatBatches, p \in BOOLEAN :
          FeatBatchRequest(c, items, p)
    \/ \E n \in Names : NameRequest(FreeClient, n, NoFault)
    \/ \E tier \in Tiers : FeatCreate(tier)

SpecFeat == Init /\ [][NextFeat]_vars

-----------------------------------------------------------------------------
(* Concurrent requests of one caller.  A request runs up to an await, is     *)
(* suspended there, and goes on when the event loop resumes it; between two  *)
(* awaits it runs alone.                                                     *)

TaskIds == 1..MaxTasks

\* the caller: no key, one address
ConcClient == FreeClient

\* the sequential requests that precede the concurrent ones
BurstSize == ConfigMax - 2

\* the count of the requests of the caller's current window, kept beside the
\* store: a request that comes when no window is open opens one
observed(o, t, admitted) ==
    IF o.n = 0 \/ o.windowEnd <= t
    THEN [o EXCEPT !.n = 1, !.windowEnd = t + StoreWindowMs,
                   !.admitted = IF admitted THEN 1 ELSE 0,
                   !.total = @ + IF admitted THEN 1 ELSE 0]
    ELSE [o EXCEPT !.n = @ + 1, !.admitted = @ + IF admitted THEN 1 ELSE 0,
                   !.total = @ + IF admitted THEN 1 ELSE 0]

\* a request reaches the limiter: the middleware calls store.increment, whose
\* body has no await and so runs to its end, and is suspended on the promise
Arrive(id) ==
    /\ id \notin DOMAIN tasks
    /\ \E rl \in {rateLimiter(hits, ConcClient, "FREE", "", now)} :
          /\ hits' = rl.hits
          /\ obs' = observed(obs, now, rl.resp.next)
          /\ tasks' = put(tasks, id, [pc |-> "increment", resp |-> rl.resp, k |-> obs'.n])
          /\ sent' = [sent EXCEPT ![rl.resp.key] = @ + 1]
    /\ UNCHANGED <<now, apiKeys, requestLog, resp, peer, mgr, out, deleted>>
    /\ UNCHANGED cacheVars

\* the request goes on after await store.increment: headers, then 429 or next()
Resume(id) ==
    /\ id \in DOMAIN tasks /\ tasks[id].pc = "increment"
    /\ resp' = tasks[id].resp
    /\ tasks' = [tasks EXCEPT ![id].pc = "done"]
    /\ UNCHANGED <<now, hits, apiKeys, requestLog, sent, obs, peer, mgr, out, deleted>>
    /\ UNCHANGED cacheVars

\* n requests of the caller, each one answered before the next is sent: the
\* first half of them, then the others
RECURSIVE burst(_, _, _, _)
burst(n, h, o, t) ==
    IF n = 0 THEN [hits |-> h, obs |-> o]
    ELSE IF n = 1
    THEN LET rl == rateLimiter(h, ConcClient, "FREE", "", t)
         IN [hits |-> rl.hits, obs |-> observed(o, t, rl.resp.next)]
    ELSE LET half == burst(n \div 2, h, o, t)
         IN IF half.obs.n > 0 THEN burst(n - n \div 2, half.hits, half.obs, t)
            ELSE half

Burst ==
    /\ \A id \in DOMAIN tasks : tasks[id].pc = "done"
    /\ obs.n < BurstSize
    /\ \E b \in {burst(BurstSize, hits, obs, now)} :
          /\ hits' = b.hits
          /\ obs' = b.obs
    /\ UNCHANGED <<now, apiKeys, requestLog, resp, sent, tasks, peer, mgr, out, deleted>>
    /\ UNCHANGED cacheVars

NextConc ==
    \/ \E id \in TaskIds : Arrive(id)
    \/ \E id \in TaskIds : Resume(id)
    \/ Burst
    \/ Tick

SpecConc == Init /\ [][NextConc]_vars

\* the instants of the runs across the window boundaries: the start, the middle
\* and the last millisecond of a window, and the two boundaries that follow
StraddleTimes ==
    {0, StoreWindowMs \div 2, StoreWindowMs - 1, StoreWindowMs,
     2 * StoreWindowMs - 1, 2 * StoreWindowMs}

\* the requests admitted at the instant t so far
admittedAt(o, t) == IF t \in DOMAIN o.at THEN o.at[t] ELSE 0

\* the caller sends n requests at the present instant, each one answered before
\* the next is sent
SendRun(n) ==
    /\ obs.sends < MaxSends
    /\ \E b \in {burst(n, hits, obs, now)} :
          /\ hits' = b.hits
          /\ obs' = [b.obs EXCEPT !.sends = @ + 1,
                                  !.at = put(@, now, admittedAt(obs, now)
                                                       + b.obs.total - obs.total)]
    /\ UNCHANGED <<now, apiKeys, requestLog, resp, sent, tasks, peer, mgr, out, deleted>>
    /\ UNCHANGED cacheVars

StraddleTick ==
    /\ \E t \in StraddleTimes : t > now /\ now' = t
    /\ UNCHANGED rlVars
    /\ UNCHANGED cacheVars
    /\ UNCHANGED appVars

NextStraddle ==
    \/ \E n \in {1, ConfigMax} : SendRun(n)
    \/ StraddleTick

SpecStraddle == Init /\ [][NextStraddle]_vars

-----------------------------------------------------------------------------
(* Concurrent calls of get, set and delete on one key of one CacheManager.   *)
(* A call runs up to its await of the L2 query, the query takes effect in    *)
(* the table while the call is suspended, and the call goes on when the      *)
(* event loop resumes it.                                                    *)

RaceKey == "name:ali"
RaceValues == {<<"v1">>, <<"v2">>}

\* no expectation about what a get returns
Unknown == <<"?">>

Writes == {"set", "delete"}

\* the writes that have not completed
writing(ts) == {id \in DOMAIN ts : ts[id].kind \in Writes}

\* a write starts: the gets in flight overlap it, and so do the writes in flight
overlapped(ts) ==
    [id \in DOMAIN ts |-> [ts[id] EXCEPT !.expect = Unknown, !.alone = FALSE]]

\* the slot a new call takes: the first one that is free
isFree(ts, id) == id \notin DOMAIN ts /\ \A j \in TaskIds \ DOMAIN ts : id <= j

NoTask ==
    [kind |-> "none", pc |-> "done", value |-> Null, expiresAt |-> 0, row |-> <<>>,
     expect |-> Unknown, alone |-> TRUE]

\* get up to its await: the L1 test, then findUnique is sent
GetStart(id) ==
    /\ isFree(tasks, id)
    /\ LET ck == getKey(RaceKey)
           expect == IF writing(tasks) = {} THEN obs.last ELSE Unknown
       IN IF ck \in DOMAIN memoryCache /\ l1Live(memoryCache[ck], now)
          THEN /\ obs' = [obs EXCEPT !.got = [result |-> memoryCache[ck].value,
                                              expect |-> expect]]
               /\ tasks' = tasks
          ELSE /\ tasks' = put(tasks, id, [NoTask EXCEPT !.kind = "get",
                                                         !.pc = "findUnique",
                                                         !.expect = expect])
               /\ obs' = obs
    /\ UNCHANGED <<now, peer, mgr, out, deleted>>
    /\ UNCHANGED rlVars
    /\ UNCHANGED cacheVars

\* db.cacheEntry.findUnique reads the table
GetRead(id) ==
    /\ id \in DOMAIN tasks /\ tasks[id].pc = "findUnique"
    /\ LET ck == getKey(RaceKey)
       IN tasks' = [tasks EXCEPT ![id].pc = "found",
                                 ![id].row = IF ck \in DOMAIN cacheEntry
                                             THEN <<cacheEntry[ck]>> ELSE <<>>]
    /\ UNCHANGED <<now, obs, peer, mgr, out, deleted>>
    /\ UNCHANGED rlVars
    /\ UNCHANGED cacheVars

\* get goes on after the await: a live row is parsed, stored in L1 and returned
GetFinish(id) ==
    /\ id \in DOMAIN tasks /\ tasks[id].pc = "found"
    /\ LET ck == getKey(RaceKey)
           row == tasks[id].row
       IN IF row # <<>> /\ l2Live(row[1], now)
          THEN LET value == JSON_parse(row[1].value)
               IN /\ memoryCache' = put(memoryCache, ck,
                                        [value |-> value, expiresAt |-> row[1].expiresAt])
                  /\ obs' = [obs EXCEPT !.got = [result |-> value,
                                                 expect |-> tasks[id].expect]]
          ELSE /\ memoryCache' = memoryCache
               /\ obs' = [obs EXCEPT !.got = [result |-> Null,
                                              expect |-> tasks[id].expect]]
    /\ tasks' = drop(tasks, {id})
    /\ UNCHANGED <<now, cacheEntry, op, prevOp, peer, mgr, out, deleted>>
    /\ UNCHANGED rlVars

\* set up to its await: the L1 write, then upsert is sent
SetStart(id, value) ==
    /\ isFree(tasks, id)
    /\ LET ck == getKey(RaceKey)
           expiresAt == now + ttlOrDefault(0) * 1000
       IN /\ memoryCache' = setMemory(memoryCache, ck, value, expiresAt)
          /\ tasks' = put(overlapped(tasks), id,
                 [NoTask EXCEPT !.kind = "set", !.pc = "upsert", !.value = value,
                                !.expiresAt = expiresAt,
                                !.alone = writing(tasks) = {}])
    /\ UNCHANGED <<now, cacheEntry, op, prevOp, obs, peer, mgr, out, deleted>>
    /\ UNCHANGED rlVars

\* db.cacheEntry.upsert writes the table
SetWrite(id) ==
    /\ id \in DOMAIN tasks /\ tasks[id].pc = "upsert"
    /\ cacheEntry' = upsert(cacheEntry, getKey(RaceKey), JSON_stringify(tasks[id].value),
                            tasks[id].expiresAt)
    /\ tasks' = [tasks EXCEPT ![id].pc = "written"]
    /\ UNCHANGED <<now, memoryCache, op, prevOp, obs, peer, mgr, out, deleted>>
    /\ UNCHANGED rlVars

\* delete up to its await: the L1 removal, then delete is sent
DeleteStart(id) ==
    /\ isFree(tasks, id)
    /\ memoryCache' = drop(memoryCache, {getKey(RaceKey)})
    /\ tasks' = put(overlapped(tasks), id,
           [NoTask EXCEPT !.kind = "delete", !.pc = "delete",
                          !.alone = writing(tasks) = {}])
    /\ UNCHANGED <<now, cacheEntry, op, prevOp, obs, peer, mgr, out, deleted>>
    /\ UNCHANGED rlVars

\* db.cacheEntry.delete removes the row; with no row it throws, which the
\* catch block swallows
DeleteWrite(id) ==
    /\ id \in DOMAIN tasks /\ tasks[id].pc = "delete"
    /\ cacheEntry' = drop(cacheEntry, {getKey(RaceKey)})
    /\ tasks' = [tasks EXCEPT ![id].pc = "written"]
    /\ UNCHANGED <<now, memoryCache, op, prevOp, obs, peer, mgr, out, deleted>>
    /\ UNCHANGED rlVars

\* set or delete goes on after the await and returns: the write has completed
WriteFinish(id) ==
    /\ id \in DOMAIN tasks /\ tasks[id].pc = "written"
    /\ tasks' = drop(tasks, {id})
    /\ obs' = [obs EXCEPT !.last = IF tasks[id].alone THEN tasks[id].value ELSE Unknown]
    /\ UNCHANGED <<now, peer, mgr, out, deleted>>
    /\ UNCHANGED rlVars
    /\ UNCHANGED cacheVars

NextRace ==
    \/ \E id \in TaskIds : GetStart(id)
    \/ \E id \in TaskIds : GetRead(id)
    \/ \E id \in TaskIds : GetFinish(id)
    \/ \E id \in TaskIds, v \in RaceValues : SetStart(id, v)
    \/ \E id \in TaskIds : SetWrite(id)
    \/ \E id \in TaskIds : DeleteStart(id)
    \/ \E id \in TaskIds : DeleteWrite(id)
    \/ \E id \in TaskIds : WriteFinish(id)

SpecRace == Init /\ [][NextRace]_vars

-----------------------------------------------------------------------------
(* Concurrent name lookups that present one API key.  A request is suspended *)
(* on the origin query; the row of requestLog that validateApiKey counts is  *)
(* written when it goes on.                                                  *)

\* the caller presents the FREE key of the apiKey table
CapClient == CHOOSE c \in Clients : c.apiKey = "kFull"

\* the key has one request left in its hour: its rows are all of its hour's
\* origin lookups but one
InitCap ==
    /\ now = 0
    /\ hits = <<>>
    /\ apiKeys = InitApiKeys
    /\ requestLog = [r \in DOMAIN InitRequestLog |->
                        InitApiKeys[r.apiKey].requestLimit - 1]
    /\ resp = NoResp
    /\ sent = [k \in Ids |-> 0]
    /\ memoryCache = <<>>
    /\ cacheEntry = <<>>
    /\ op = NoOp
    /\ prevOp = NoOp
    /\ peer = NoPeer
    /\ mgr = NoCall
    /\ out = NoOut
    /\ deleted = <<>>
    /\ tasks = <<>>
    /\ obs = NoObs

\* GET /name/:name up to the await of the origin query: the API-key middleware
\* counts the rows of the hour, the limiter counts the request, cache.get
\* misses and findFirst is sent; a hit is answered at once
LookupStart(id, name) ==
    /\ isFree(tasks, id)
    /\ Admit(CapClient, FALSE)
    /\ \E cached \in {get(memoryCache, cacheEntry, "name:" \o name, now, FALSE)} :
          /\ memoryCache' = IF resp'.next THEN cached.mc ELSE memoryCache
          /\ IF resp'.next /\ ~truthy(cached.result)
             THEN /\ tasks' = put(tasks, id, [pc |-> "findFirst", name |-> name])
                  /\ obs' = [obs EXCEPT !.lookups = @ + 1]
             ELSE UNCHANGED <<tasks, obs>>
    /\ UNCHANGED <<now, requestLog, cacheEntry, op, prevOp, peer, mgr, out, deleted>>

\* the request goes on after the origin query: logRequest writes its row,
\* cache.set stores the result, the response is sent
LookupFinish(id) ==
    /\ id \in DOMAIN tasks /\ tasks[id].pc = "findFirst"
    /\ requestLog' = logRequest(requestLog, CapClient.apiKey, now, FALSE)
    /\ \E stored \in {set(memoryCache, cacheEntry, "name:" \o tasks[id].name,
                           nameResult(findFirst(tasks[id].name)), NameTTL, now, FALSE)} :
          /\ memoryCache' = stored.mc
          /\ cacheEntry' = stored.db
    /\ tasks' = drop(tasks, {id})
    /\ UNCHANGED <<now, hits, apiKeys, resp, sent, op, prevOp, obs, peer, mgr, out, deleted>>

\* a request of the key that the API-key middleware answers 401
LookupRejected ==
    /\ Reject(CapClient, FALSE)
    /\ UNCHANGED <<now, requestLog>>
    /\ UNCHANGED cacheVars
    /\ UNCHANGED appVars

NextCap ==
    \/ \E id \in TaskIds, name \in Names : LookupStart(id, name)
    \/ \E id \in TaskIds : LookupFinish(id)
    \/ LookupRejected

SpecCap == InitCap /\ [][NextCap]_vars

-----------------------------------------------------------------------------
(* The chunk loop of POST /batch, item by item.  batch.map(processName)      *)
(* starts every item of a chunk, each runs to its await of cache.get; an     *)
(* item that misses is suspended again on the origin query; the loop goes on *)
(* when Promise.all of the chunk has settled.                                *)

\* the bodies: names without a record, over one chunk and a bit and over two
\* full chunks, and the latter with a name that has a record at the start of
\* each chunk
ChunkInputs ==
    {[i \in 1..n |-> "zed"] : n \in {ChunkSize + 1, 2 * ChunkSize}}
        \cup {[i \in 1..(2 * ChunkSize) |-> IF i % ChunkSize = 1 THEN "ali" ELSE "zed"]}

\* names.slice(i, i + batchSize) for the chunk that follows `started` items
slice(names, started) == (started + 1)..min(Len(names), started + ChunkSize)

\* await Promise.all(...) returning once any one item has settled
settledMutAny(ts) == \E i \in DOMAIN ts : ts[i].pc = "done"

\* await Promise.all(batch.map(processName)): every item started has settled
settled(ts) == \A i \in DOMAIN ts : ts[i].pc = "done"

\* the items whose origin query is in flight
inFlight(ts) == {i \in DOMAIN ts : ts[i].pc = "findFirst"}

\* batch.map(processName): each item of the slice S runs to the await inside
\* its cache.get, whose L1 test and L2 query precede every sibling's cache.set
mapped(names, S, mc, db, t) ==
    [i \in S |-> [pc |-> "get",
                  cached |-> get(mc, db, "name:" \o names[i], t, FALSE).result]]

\* POST /batch up to the first Promise.all: the middlewares, the tier and
\* body checks, and the first chunk's items each at their cache.get
ChunkedStart(names) ==
    /\ out.route = "none"
    /\ Admit(PaidClient, FALSE)
    /\ resp'.next /\ resp'.tier # "FREE" /\ batchRequestSchema(names)
    /\ out' = [NoOut EXCEPT !.route = "chunks", !.input = names, !.tier = resp'.tier,
                            !.at = now]
    /\ tasks' = mapped(names, slice(names, 0), memoryCache, cacheEntry, now)
    /\ UNCHANGED <<now, requestLog, peer, mgr, deleted, obs>>
    /\ UNCHANGED cacheVars

\* processName goes on after cache.get: a hit, stored in L1 when it came from
\* L2, is the item's result, a miss sends the origin query
ItemGet(i) ==
    /\ i \in DOMAIN tasks /\ tasks[i].pc = "get"
    /\ \E cached \in {get(memoryCache, cacheEntry, "name:" \o out.input[i], now, FALSE)} :
          /\ memoryCache' = IF truthy(tasks[i].cached) THEN cached.mc ELSE memoryCache
          /\ tasks' = [tasks EXCEPT ![i].pc = IF truthy(tasks[i].cached) THEN "done"
                                              ELSE "findFirst"]
    /\ UNCHANGED <<now, cacheEntry, op, prevOp, peer, mgr, out, deleted, obs>>
    /\ UNCHANGED rlVars

\* processName goes on after the origin query: a record is stored in the
\* cache, and the item has its result
ItemFound(i) ==
    /\ i \in DOMAIN tasks /\ tasks[i].pc = "findFirst"
    /\ \E data \in {findFirst(out.input[i])} :
       \E stored \in {IF data # Null
                       THEN set(memoryCache, cacheEntry, "name:" \o out.input[i],
                                <<data[1], data[2], "undefined">>, BatchTTL, now, FALSE)
                       ELSE [mc |-> memoryCache, db |-> cacheEntry]} :
          /\ memoryCache' = stored.mc
          /\ cacheEntry' = stored.db
    /\ tasks' = [tasks EXCEPT ![i].pc = "done"]
    /\ UNCHANGED <<now, op, prevOp, peer, mgr, out, deleted, obs>>
    /\ UNCHANGED rlVars

\* the loop goes on after Promise.all: the next chunk's items are started, or
\* after the last chunk the response is sent
LoopTurn ==
    /\ out.route = "chunks"
    /\ settled(tasks)
    /\ \E started \in {Cardinality(DOMAIN tasks)} :
          IF started < Len(out.input)
          THEN /\ tasks' = tasks @@ mapped(out.input, slice(out.input, started),
                                           memoryCache, cacheEntry, now)
               /\ out' = out
          ELSE /\ tasks' = tasks
               /\ out' = [out EXCEPT !.route = "batch", !.status = 200,
                                     !.processedCount = Len(out.input)]
    /\ UNCHANGED <<now, peer, mgr, deleted, obs>>
    /\ UNCHANGED rlVars
    /\ UNCHANGED cacheVars

NextChunks ==
    \/ \E names \in ChunkInputs : ChunkedStart(names)
    \/ \E i \in 1..MaxNames : ItemGet(i)
    \/ \E i \in 1..MaxNames : ItemFound(i)
    \/ LoopTurn

SpecChunks == Init /\ [][NextChunks]_vars

-----------------------------------------------------------------------------
(* Name lookups, batches and warmCache over one cache: each of the three     *)
(* stores entries under name:<name>, and the two routes read them            *)

\* bodies of names with and without a record, whose origin lookups succeed
MixedBatches == {<<Ok(n)>> : n \in Names} \cup {<<Ok("ali"), Ok("zed")>>}

NextMixed ==
    \/ \E n \in Names : NameRequest(FreeClient, n, NoFault)
    \/ \E items \in MixedBatches, p \in BOOLEAN : BatchRequest(PaidClient, items, p, NoFault)
    \/ CacheWarm(FALSE, FALSE)
    \/ NameRestart

SpecMixed == Init /\ [][NextMixed]_vars

-----------------------------------------------------------------------------
(* Health checks *)

HealthFaults == [fetch : BOOLEAN, db : BOOLEAN, l2 : BOOLEAN]

\* GET /health from a caller the middlewares let through
HealthRequest(c, f, memoryUsage) ==
    /\ Admit(c, FALSE)
    /\ PathTraffic(sent')
    /\ \E h \in {healthHandler(memoryCache, cacheEntry, now, f, memoryUsage)} :
          /\ memoryCache' = IF resp'.next THEN h.mc ELSE memoryCache
          /\ out' = [NoOut EXCEPT !.route = "health", !.tier = resp'.tier, !.at = now,
                                  !.status = IF resp'.next THEN h.status ELSE resp'.status,
                                  !.body = IF resp'.next THEN h.body ELSE Null,
                                  !.query = IF f.db THEN "db" ELSE ""]
    /\ UNCHANGED <<now, requestLog, cacheEntry, op, prevOp, peer, mgr, deleted, tasks, obs>>

\* GET /health with a key that does not validate
HealthRejected(c, dbFails) ==
    /\ Reject(c, dbFails)
    /\ out' = [NoOut EXCEPT !.route = "health", !.at = now, !.status = resp'.status,
                            !.code = resp'.code]
    /\ UNCHANGED <<now, requestLog, peer, mgr, deleted, tasks, obs>>
    /\ UNCHANGED cacheVars

NextHealth ==
    \/ \E c \in PathClients, f \in HealthFaults, u \in MemoryUsages : HealthRequest(c, f, u)
    \/ \E c \in BadClients : HealthRejected(c, FALSE)
    \/ \E n \in Names : NameRequest(FreeClient, n, NoFault)
    \/ NameRestart
    \/ NameTick

SpecHealth == Init /\ [][NextHealth]_vars

----------------------------------------------------------------------------
(* Properties of the rate limiter *)

Limited == resp.stage = "limiter"

\* C1 (as stated): the limiter's limit is the hourly quota of the caller's tier:
\* X-RateLimit-Limit carries it and a request is rejected exactly when its
\* totalHits exceeds it.
C1_TierQuota ==
    Limited =>
        /\ resp.limit = rateLimitTiers[resp.tier].requests
        /\ (resp.status = 429) <=> (resp.totalHits > rateLimitTiers[resp.tier].requests)

\* C2: a request that reached the limiter is rejected (429, code 42901) exactly
\* when the totalHits increment returned exceeds max, otherwise it is passed on;
\* a rejected request is not passed on to anything downstream.
C2_RejectIffOverMax ==
    Limited =>
        /\ (resp.status = 429) <=> (resp.totalHits > ConfigMax)
        /\ resp.status = 429 => resp.code = 42901 /\ ~resp.next
        /\ resp.status # 429 => resp.next

C2_Witness ==
    Limited /\ resp.status = 429 /\ resp.totalHits = ConfigMax + 1 /\ ~resp.next

\* C3: increment on a missing counter or on one whose window has elapsed
\* (resetTime <= now) sets count to 1, opens a new window and returns 1; any
\* other call returns the previous count plus 1 with the remaining window time
\* (> 0) and leaves the window's end alone.
C3_FixedWindow ==
    Limited =>
        LET cur == hits[resp.key]
        IN /\ resp.totalHits = cur.count
           /\ IF ~resp.hadCounter \/ resp.before.resetTime <= resp.at
              THEN /\ resp.totalHits = 1
                   /\ cur.resetTime = resp.at + resp.timeToExpire
                   /\ resp.timeToExpire > 0
              ELSE /\ resp.totalHits = resp.before.count + 1
                   /\ resp.timeToExpire = resp.before.resetTime - resp.at
                   /\ resp.timeToExpire > 0
                   /\ cur.resetTime = resp.before.resetTime

\* the 101st call of a window returned 101 and the first call after that window
\* elapsed returns 1
C3_Witness ==
    /\ Limited
    /\ resp.hadCounter
    /\ resp.before.count = ConfigMax + 1
    /\ resp.before.resetTime <= resp.at
    /\ resp.totalHits = 1

\* C4 (as stated): the window opened by a FREE identifier's first request lasts
\* one hour: of 101 requests sent from a fresh counter in under an hour, the
\* 100th carries X-RateLimit-Remaining 0 and the 101st is rejected with
\* Retry-After > 0.
C4_HourWindow ==
    (Limited /\ resp.tier = "FREE" /\ resp.at < ConfigWindowMs) =>
        /\ sent[resp.key] = 100 => resp.remaining = 0
        /\ sent[resp.key] = 101 => resp.status = 429 /\ resp.retryAfter > 0

\* C16: every response of the limiter, admitted or rejected, carries
\* X-RateLimit-Limit, X-RateLimit-Remaining and X-RateLimit-Reset; Remaining is
\* max(0, limit - totalHits), never negative and 0 on the limit-th request of a
\* window; Retry-After is present exactly on the rejected responses and is the
\* remaining window time in seconds rounded up, at least 1.
C16_Headers ==
    Limited =>
        /\ resp.limit = ConfigMax
        /\ resp.remaining =
              IF resp.limit - resp.totalHits > 0 THEN resp.limit - resp.totalHits ELSE 0
        /\ resp.remaining >= 0
        /\ resp.totalHits = resp.limit => resp.remaining = 0
        /\ resp.reset = resp.at + resp.timeToExpire /\ resp.reset > resp.at
        /\ (resp.retryAfter # -1) <=> (resp.status = 429)
        /\ resp.status = 429 =>
              /\ resp.retryAfter >= 1
              /\ resp.retryAfter * 1000 >= resp.timeToExpire
              /\ (resp.retryAfter - 1) * 1000 < resp.timeToExpire

\* a request rejected in the last millisecond of its window: Retry-After is 1
C16_Witness ==
    /\ Limited /\ resp.status = 429 /\ resp.remaining = 0
    /\ resp.timeToExpire = 1 /\ resp.retryAfter = 1

\* C17 (as stated): a request is counted against one identifier: the one of
\* its API key when it presented a valid key, whatever its IP, and otherwise the
\* one of its client IP, the first, trimmed entry of the forwarded-for chain; so
\* two keyless requests from different client IPs never share a counter.
C17_OneIdentifier ==
    Limited => resp.key = getClientKey(resp.client)

----------------------------------------------------------------------------
(* Properties of the cache *)

\* the entry of the last call's key in each tier
OpKey == getKey(op.key)
InL1 == OpKey \in DOMAIN memoryCache
InL2 == OpKey \in DOMAIN cacheEntry

\* a get that directly follows a set of the same key
GetAfterSet == op.name = "get" /\ prevOp.name = "set" /\ prevOp.key = op.key

\* C5: get never returns a value whose expiresAt <= now: the entry a hit
\* returned is the one L1 holds afterwards, and it expires after the call.
C5_NoExpiredHit ==
    (op.name = "get" /\ op.result # Null) =>
        /\ InL1
        /\ memoryCache[OpKey].value = op.result
        /\ memoryCache[OpKey].expiresAt > op.at

\* a miss while expired entries are still present in both tiers
C5_Witness ==
    /\ op.name = "get" /\ op.result = Null /\ ~op.l2Fails
    /\ InL1 /\ memoryCache[OpKey].expiresAt <= op.at
    /\ InL2 /\ cacheEntry[OpKey].expiresAt <= op.at

\* C6: set(k, v, ttl) with ttl > 0 followed immediately by get(k) returns v.
C6_SetThenGet ==
    (GetAfterSet /\ prevOp.ttl > 0 /\ op.at = prevOp.at) => op.result = prevOp.value

C6_Witness ==
    /\ GetAfterSet /\ prevOp.ttl > 0 /\ op.at = prevOp.at
    /\ prevOp.l2Fails /\ op.result = <<"NaN">>

\* C7 (as stated): set stores expiresAt = now + ttlSeconds, so a set with
\* ttlSeconds <= 0 followed by get returns absent.
C7_NonPositiveTtlIsExpired ==
    (GetAfterSet /\ prevOp.ttl <= 0 /\ op.at = prevOp.at /\ ~prevOp.l2Fails) =>
        /\ op.result = Null
        /\ InL1 /\ memoryCache[OpKey].expiresAt = prevOp.at + prevOp.ttl * 1000
        /\ InL2 /\ cacheEntry[OpKey].expiresAt = prevOp.at + prevOp.ttl * 1000

\* the expiry set computes
SetExpiry(o) == o.at + ttlOrDefault(o.ttl) * 1000

\* a set that directly follows a set of the same key with another value
SecondSet(o) == o.name = "set" /\ o.over # Null /\ o.over # o.value

\* C8 (as stated): after set(k, v1) and then set(k, v2), each tier holds the
\* entry of the second set and get(k) returns v2.
C8_UpsertAsStated ==
    /\ SecondSet(op) =>
          /\ InL1 /\ memoryCache[OpKey] = [value |-> op.value, expiresAt |-> SetExpiry(op)]
          /\ InL2 /\ cacheEntry[OpKey] =
                        [value |-> JSON_stringify(op.value), expiresAt |-> SetExpiry(op)]
    /\ (GetAfterSet /\ SecondSet(prevOp) /\ op.at = prevOp.at) => op.result = prevOp.value

\* C8 (amended): after set(k, v1) and then set(k, v2, ttl2), L1 holds for k the
\* value and expiry of the second set, and so does L2 when the second set's
\* upsert succeeded; an immediately following get(k) returns v2 when that expiry
\* lies in the future, and absent when it does not and the upsert succeeded.
C8_Upsert ==
    /\ SecondSet(op) =>
          /\ InL1 /\ memoryCache[OpKey] = [value |-> op.value, expiresAt |-> SetExpiry(op)]
          /\ ~op.l2Fails =>
                InL2 /\ cacheEntry[OpKey] =
                           [value |-> JSON_stringify(op.value), expiresAt |-> SetExpiry(op)]
    /\ (GetAfterSet /\ SecondSet(prevOp) /\ op.at = prevOp.at) =>
          /\ SetExpiry(prevOp) > op.at => op.result = prevOp.value
          /\ (SetExpiry(prevOp) <= op.at /\ ~prevOp.l2Fails) => op.result = Null

C8_Witness ==
    /\ GetAfterSet /\ SecondSet(prevOp) /\ op.at = prevOp.at
    /\ ~prevOp.l2Fails /\ op.result = prevOp.value
    /\ InL2 /\ cacheEntry[OpKey].value = JSON_stringify(prevOp.value)

\* C9: no cache operation propagates a failure of the persistent store; a get
\* whose L2 read fails returns the live L1 value if there is one, else absent.
C9_NoThrow ==
    /\ ~op.threw
    /\ (op.name = "get" /\ op.l2Fails) =>
          op.result = IF InL1 /\ memoryCache[OpKey].expiresAt > op.at
                      THEN memoryCache[OpKey].value
                      ELSE Null

\* the L2 read failed while L2 held a live entry and L1 none: a miss
C9_Witness ==
    /\ op.name = "get" /\ op.l2Fails /\ op.result = Null /\ ~op.threw
    /\ ~InL1
    /\ InL2 /\ cacheEntry[OpKey].expiresAt > op.at

\* C10: when the L2 upsert of set(k, v, ttl) fails, set completes normally and a
\* following get(k) returns v until ttl seconds have passed.
C10_L1StandsOnL2Failure ==
    (GetAfterSet /\ prevOp.l2Fails /\ prevOp.ttl > 0
        /\ op.at < prevOp.at + prevOp.ttl * 1000) =>
            /\ ~prevOp.threw
            /\ op.result = prevOp.value

\* the get came later than the set, and L2 holds no row for the key
C10_Witness ==
    /\ GetAfterSet /\ prevOp.l2Fails /\ prevOp.ttl > 0
    /\ prevOp.at < op.at /\ op.at < prevOp.at + prevOp.ttl * 1000
    /\ ~InL2 /\ op.result = prevOp.value

\* applying delete to any key in this state changes no entry of another key
\* and completes
DeleteFrame ==
    \A k \in DelKeys, f \in BOOLEAN :
        LET r == delete(memoryCache, cacheEntry, k, f)
            ck == getKey(k)
        IN /\ ~r.threw
           /\ DOMAIN r.mc \ {ck} = DOMAIN memoryCache \ {ck}
           /\ DOMAIN r.db \ {ck} = DOMAIN cacheEntry \ {ck}
           /\ \A x \in DOMAIN r.mc \ {ck} : r.mc[x] = memoryCache[x]
           /\ \A x \in DOMAIN r.db \ {ck} : r.db[x] = cacheEntry[x]

\* C11 (as stated): once delete(k) has completed, k is in neither L1 nor L2
\* and get(k) returns absent until the next set(k); delete completes without
\* error, also on an absent key, and changes no other entry.
C11_DeleteAsStated ==
    /\ \A k \in DOMAIN deleted :
          getKey(k) \notin DOMAIN memoryCache /\ getKey(k) \notin DOMAIN cacheEntry
    /\ (op.name = "get" /\ op.key \in DOMAIN deleted) => op.result = Null
    /\ op.name = "delete" => ~op.threw
    /\ DeleteFrame

\* C11 (amended): delete(k) completes without error, also on an absent key,
\* changes no other entry and leaves k out of L1; when the L2 deletion did not
\* fail, k is in neither tier and get(k) returns absent until the next set(k).
C11_Delete ==
    /\ \A k \in DOMAIN deleted :
          ~deleted[k] =>
              getKey(k) \notin DOMAIN memoryCache /\ getKey(k) \notin DOMAIN cacheEntry
    /\ (op.name = "get" /\ op.key \in DOMAIN deleted /\ ~deleted[op.key]) =>
          op.result = Null
    /\ op.name = "delete" => ~op.threw /\ ~InL1
    /\ DeleteFrame

\* the get that follows a delete misses while the other key is still in both
\* tiers
C11_Witness ==
    /\ op.name = "get" /\ op.result = Null /\ ~op.l2Fails
    /\ op.key \in DOMAIN deleted /\ ~deleted[op.key]
    /\ prevOp.name = "delete" /\ prevOp.key = op.key
    /\ \E k \in DelKeys \ {op.key} :
          getKey(k) \in DOMAIN memoryCache /\ getKey(k) \in DOMAIN cacheEntry

\* C12 (as stated): two CacheManager instances with different prefixes over
\* the same store never observe each other's keys: whatever the logical keys,
\* a get through one instance never returns a value written through the other.
\* (Checked for the instances with a non-empty prefix; an instance constructed
\* without one reads and writes the bare keys.)
C12_PrefixIsolation ==
    (peer.made /\ peer.prefix # "" /\ peer.prefix # Prefix) =>
        /\ op.name = "get" => op.result \notin PeerValues
        /\ op.name = "peer.get" => op.result \notin AppValues

----------------------------------------------------------------------------
(* Properties of the API-key middleware and of ApiKeyManager *)

\* the key validates in this state: its row exists, is active and the requests
\* logged for it in the last hour are under its requestLimit
Validates(key) ==
    /\ key \in DOMAIN apiKeys
    /\ apiKeys[key].isActive
    /\ recentRequests(requestLog, key, now) < apiKeys[key].requestLimit

\* C13: a request whose x-api-key is unknown, inactive or quota-exhausted is
\* answered 401 with code 40101 before admission: no rate-limit counter is
\* incremented, neither the cache nor the origin is touched, and it is never
\* passed on as FREE; a request that reaches the limiter has the tier of its
\* key, and tier FREE by default only when it presented no key.
C13_HardReject ==
    [][now' = now =>
         LET c == resp'.client
         IN /\ (c.apiKey # "" /\ ~Validates(c.apiKey)) =>
                  /\ resp'.stage = "auth"
                  /\ resp'.status = 401 /\ resp'.code = 40101 /\ ~resp'.next
                  /\ UNCHANGED <<hits, sent, requestLog, memoryCache, cacheEntry, op, out>>
            /\ resp'.stage = "limiter" =>
                  resp'.tier = IF c.apiKey = "" THEN "FREE" ELSE apiKeys[c.apiKey].tier
      ]_vars

\* the request of an active key that has used up its hour is answered 401 while
\* other callers already have counters
C13_Witness ==
    /\ resp.stage = "auth" /\ resp.status = 401 /\ resp.code = 40101
    /\ resp.client.apiKey = "kFull" /\ apiKeys["kFull"].isActive
    /\ hits # <<>> /\ "api:kFull" \notin DOMAIN hits

\* C14: validateApiKey never throws and fails closed: it answers isValid =
\* false when the key is not found, when its row is inactive and when a call of
\* the credential store fails, and isValid = true only for a key that exists, is
\* active and is under its hourly cap.
C14_FailClosed ==
    mgr.name = "validate" =>
        /\ ~mgr.threw
        /\ mgr.isValid <=>
              /\ ~mgr.dbFails
              /\ mgr.key \in DOMAIN apiKeys
              /\ apiKeys[mgr.key].isActive
              /\ recentRequests(requestLog, mgr.key, mgr.at) < apiKeys[mgr.key].requestLimit

\* the store fails while validating a key that exists, is active and is under
\* its cap: the answer is isValid = false
C14_Witness ==
    /\ mgr.name = "validate" /\ mgr.dbFails /\ ~mgr.isValid /\ ~mgr.threw
    /\ mgr.key \in DOMAIN apiKeys /\ apiKeys[mgr.key].isActive
    /\ recentRequests(requestLog, mgr.key, mgr.at) < apiKeys[mgr.key].requestLimit

\* C15: once deactivateApiKey(key) has succeeded, the key's row stays inactive
\* whatever is called later (validate, incrementUsage, create), and every later
\* validateApiKey(key) answers isValid = false, whatever the key's quota state
\* and whatever validations succeeded before.
C15_DeactivatedStaysInvalid ==
    /\ \A k \in mgr.off : k \in DOMAIN apiKeys /\ ~apiKeys[k].isActive
    /\ (mgr.name = "validate" /\ mgr.key \in mgr.off) => ~mgr.isValid

\* a key that validated before, was used and is under its cap is deactivated,
\* and its next validation, with the store working, answers isValid = false
C15_Witness ==
    /\ mgr.name = "validate" /\ mgr.key = "kBasic" /\ ~mgr.dbFails /\ ~mgr.isValid
    /\ "kBasic" \in mgr.off
    /\ apiKeys["kBasic"].lastUsedAt > 0 /\ apiKeys["kBasic"].requestCount > 0
    /\ recentRequests(requestLog, "kBasic", mgr.at) < apiKeys["kBasic"].requestLimit

-----------------------------------------------------------------------------
(* Properties of the name lookup *)

\* the last request was a name lookup that the limiter let through
Looked == out.route = "name" /\ out.status # 429

\* the lookup repeats, within the TTL, one that stored the name in this isolate
Repeated ==
    /\ Looked
    /\ out.name \in DOMAIN out.seen
    /\ out.at < out.seen[out.name] + NameTTL * 1000

-----------------------------------------------------------------------------
(* Properties of batch processing *)

\* the last request was a batch of 1..100 valid names sent with a key of a paid
\* tier and let through by the limiter
Batched ==
    /\ out.route = "batch" /\ out.status # 429
    /\ out.tier # "FREE"
    /\ batchRequestSchema(namesOf(out.input))

\* how processName must have served item i: from the cache, or else by the
\* origin lookup of that item alone
servedAlone(i) ==
    IF out.served[i] = "hit" THEN "hit"
    ELSE IF out.input[i].fails THEN "failed"
    ELSE IF out.input[i].name \in DOMAIN persianName THEN "found"
    ELSE "notfound"

\* C19: a batch request of n names, 1 <= n <= 100, from a tier other than FREE
\* is answered 200 with exactly n results, the i-th for the i-th name, and
\* processedCount = n. An item whose processing fails is degraded to gender =
\* null, enName = null, confidence = 0; no other item is degraded with it: each
\* is answered from the cache (confidence 1.0) or from its own origin lookup (the
\* record with confidence 0.95, or the not-found item).
C19_BatchTotal ==
    Batched =>
        /\ out.status = 200
        /\ Len(out.results) = Len(out.input)
        /\ out.processedCount = Len(out.input)
        /\ \A i \in 1..Len(out.input) :
              LET r == out.results[i]
                  name == out.input[i].name
              IN /\ r.name = name
                 /\ out.served[i] = servedAlone(i)
                 /\ out.served[i] = "failed" =>
                       r.gender = "null" /\ r.enName = "null" /\ r.confidence = ConfNone
                 /\ out.served[i] = "hit" => r.confidence = ConfCached
                 /\ out.served[i] = "found" =>
                       /\ r.gender = persianName[name][1]
                       /\ r.enName = persianName[name][2]
                       /\ r.confidence = ConfFound
                 /\ out.served[i] = "notfound" =>
                       r.gender = "null" /\ r.enName = "null" /\ r.confidence = ConfNone

\* a batch of a chunk and one name more: the last lookup of the first chunk
\* throws, its siblings are found and the name of the second chunk is a hit
C19_Witness ==
    /\ Batched /\ out.status = 200
    /\ Len(out.input) = ChunkSize + 1
    /\ out.served[1] = "found"
    /\ out.served[ChunkSize] = "failed"
    /\ out.served[ChunkSize + 1] = "hit"
    /\ out.results[ChunkSize].confidence = ConfNone

\* the names of the batch whose origin lookup threw
Failed == {i \in 1..Len(out.served) : out.served[i] = "failed"}

\* the results with confidence 0
ZeroConfidence == {i \in 1..Len(out.results) : out.results[i].confidence = ConfNone}

\* C20 as stated: in a batch of n names whose origin lookup fails for exactly f
\* names and succeeds for the other n - f, the response has n results, exactly
\* f of them with confidence 0, and errorCount = f.
C20_ErrorCountAsStated ==
    (/\ Batched /\ out.status = 200
     /\ \A i \in 1..Len(out.served) : out.served[i] # "hit") =>
        /\ Len(out.results) = Len(out.input)
        /\ Cardinality(ZeroConfidence) = Cardinality(Failed)
        /\ out.errorCount = Cardinality(Failed)

\* C20: in a batch of n names whose origin lookup throws for exactly f names,
\* while each other name is served from the cache or has a record in the
\* origin, the response has n results, exactly f of them with confidence 0,
\* and errorCount = f. In every batch errorCount is the number of results with
\* confidence 0: the names whose lookup threw and the names without a record.
C20_ErrorCount ==
    (Batched /\ out.status = 200) =>
        /\ Len(out.results) = Len(out.input)
        /\ out.errorCount = Cardinality(ZeroConfidence)
        /\ ZeroConfidence =
              {i \in 1..Len(out.served) : out.served[i] \in {"failed", "notfound"}}
        /\ (\A i \in 1..Len(out.served) : out.served[i] # "notfound") =>
              /\ Cardinality(ZeroConfidence) = Cardinality(Failed)
              /\ out.errorCount = Cardinality(Failed)

\* of a chunk and one name more, the first and the last lookup of the first
\* chunk throw, the other names are found or hits: f = 2
C20_Witness ==
    /\ Batched /\ out.status = 200
    /\ Len(out.input) = ChunkSize + 1
    /\ Failed = {1, ChunkSize}
    /\ out.errorCount = 2
    /\ Cardinality(ZeroConfidence) = 2
    /\ \A i \in 1..Len(out.served) : out.served[i] # "notfound"

-----------------------------------------------------------------------------
(* Properties of the features of the paid tiers *)

\* the tiers a feature is denied to
Denied(route, tier) ==
    \/ route \in {"batch", "metrics"} /\ tier = "FREE"
    \/ route = "analytics" /\ tier \in {"FREE", "BASIC"}

DenyCode(route) ==
    CASE route = "batch" -> 40303 [] route = "metrics" -> 40301 [] route = "analytics" -> 40302

\* C21: feature access follows the resolved tier. A request of tier FREE never
\* runs batch processing (403, code 40303) nor metrics retrieval (403, code
\* 40301), a request of tier FREE or BASIC never runs analytics retrieval (403,
\* code 40302); a denied request makes no origin, cache or metrics query of the
\* feature. (A denied request whose body or query the validator refuses is
\* answered 400 before the tier is looked at.) The other tiers are not denied.
C21_FeatureAccess ==
    [][(resp' # resp /\ out'.route \in {"batch", "metrics", "analytics"}
        /\ out'.status # 429) =>
          /\ out'.tier = resp'.tier
          /\ Denied(out'.route, out'.tier) =>
                /\ out'.status \in {403, 400}
                /\ out'.status = 403 => out'.code = DenyCode(out'.route)
                /\ out'.status = 400 =>
                      \/ out'.route = "batch" /\ ~batchRequestSchema(namesOf(out'.input))
                      \/ out'.route = "analytics" /\ out'.query = "invalid"
                /\ out'.queries = 0 /\ out'.origin = 0 /\ out'.sets = 0
                /\ out'.served = <<>> /\ out'.results = <<>>
                /\ UNCHANGED <<memoryCache, cacheEntry, requestLog>>
          /\ ~Denied(out'.route, out'.tier) => out'.status # 403
      ]_vars

\* a BASIC key is refused the analytics while names are in the cache
C21_Witness ==
    /\ out.route = "analytics" /\ out.tier = "BASIC" /\ out.query = "plain"
    /\ out.status = 403 /\ out.code = 40302
    /\ memoryCache # <<>>

-----------------------------------------------------------------------------
(* Properties of the health check *)

HealthStatuses == {"healthy", "degraded", "unhealthy"}

\* the body of the last health check: overall status, version and the three checks
HealthBody ==
    [status |-> out.body[1], version |-> out.body[2], database |-> out.body[3],
     cache |-> out.body[4], memory |-> out.body[5]]

-----------------------------------------------------------------------------
(* Properties of concurrent requests *)

\* C23: under every interleaving of the concurrent requests of one identifier
\* in one process no increment is lost: the k-th request of a window observes
\* totalHits = k, so at most max requests of the identifier are admitted in a
\* window.
C23_NoLostIncrement ==
    /\ \A id \in DOMAIN tasks :
          /\ tasks[id].resp.totalHits = tasks[id].k
          /\ tasks[id].resp.next <=> tasks[id].k <= ConfigMax
    /\ obs.admitted <= ConfigMax
    /\ obs.n > 0 =>
          /\ ConcClient.ip # "" /\ hits # <<>>
          /\ \A key \in DOMAIN hits : hits[key].count = obs.n

\* three requests are in flight at once at the end of a window's quota: the last
\* to arrive is resumed first and refused, the other two are still suspended
C23_Witness ==
    /\ DOMAIN tasks = TaskIds
    /\ \E id \in TaskIds :
          /\ tasks[id].pc = "done" /\ tasks[id].k = ConfigMax + 1 /\ ~tasks[id].resp.next
          /\ resp = tasks[id].resp
          /\ \A other \in TaskIds \ {id} :
                tasks[other].pc = "increment" /\ tasks[other].k <= ConfigMax

\* the requests admitted in the interval [a, b]
admittedIn(a, b) ==
    SumOver(obs.at, {t \in DOMAIN obs.at : a <= t /\ t <= b})

\* C24: for one identifier in one process, an interval of time no longer than
\* one window of the store admits at most 2 * max requests, the burst that
\* straddles a window boundary, and never more.
C24_StraddleBound ==
    \A a \in DOMAIN obs.at : admittedIn(a, a + StoreWindowMs) <= 2 * ConfigMax

\* max requests are admitted in the last millisecond of a window that opened
\* one window earlier at most, max more at the boundary, and the next one is
\* refused: 2 * max admitted within one window's duration
C24_Witness ==
    /\ \E a \in DOMAIN obs.at :
          /\ admittedIn(a, a + StoreWindowMs) = 2 * ConfigMax
          /\ admittedAt(obs, a) = ConfigMax
          /\ admittedAt(obs, now) = ConfigMax /\ now > a
    /\ obs.n = ConfigMax + 1 /\ obs.admitted = ConfigMax

\* C25: reads and writes of one key take effect in the order they arrive:
\* a get that starts after set(k, v) or delete(k) completed, with no other
\* write of k since, returns v, or absent after the delete, also when other
\* gets were suspended on their L2 read while the write ran and store their
\* result in L1 afterwards.
C25_ArrivalOrder ==
    obs.got.expect # Unknown => obs.got.result = obs.got.expect

\* the origin lookups made for the key within the hour: those of its rows at
\* start and those of the run
keyLookups == InitApiKeys[CapClient.apiKey].requestLimit - 1 + obs.lookups

\* C26: under any interleaving of the requests of one key, no more than
\* requestLimit origin lookups are made on behalf of the key within one hour,
\* and no more than requestLimit rows of the hour are attributed to it.
C26_KeyCap ==
    /\ keyLookups <= apiKeys[CapClient.apiKey].requestLimit
    /\ recentRequests(requestLog, CapClient.apiKey, now)
          <= apiKeys[CapClient.apiKey].requestLimit

\* C27: every cache operation, clear() and cleanExpired() included, touches
\* only the entries under the prefix of the instance that is called: the rows
\* of the table under another prefix are the same after the call, so after an
\* instance's clear() the live entries of the other one are still in L2.
C27_PrefixFrame ==
    [][\A ck \in DOMAIN cacheEntry \ under(callerPrefix(op')) :
          ck \in DOMAIN cacheEntry' /\ cacheEntry'[ck] = cacheEntry[ck]]_vars

-----------------------------------------------------------------------------
(* Properties of the chunk loop *)

\* the chunk of an item, counted from 0
chunkOf(i) == (i - 1) \div ChunkSize

\* C28: while a batch is processed at most 10 origin lookups are in flight;
\* the items are started in consecutive chunks of 10 in the order of the
\* input, and no item of a chunk is started before every item of the chunk
\* before it has completed.
C28_ChunkedLookups ==
    out.route \in {"chunks", "batch"} =>
        /\ Cardinality(inFlight(tasks)) <= ChunkSize
        /\ \E c \in 1..(MaxNames \div ChunkSize) :
              DOMAIN tasks = 1..min(Len(out.input), c * ChunkSize)
        /\ \A i \in DOMAIN tasks, j \in DOMAIN tasks :
              chunkOf(i) < chunkOf(j) => tasks[i].pc = "done"

\* the ten items of the second chunk all have their origin query in flight,
\* and the ten of the first chunk have completed
C28_Witness ==
    /\ out.route = "chunks" /\ Len(out.input) = 2 * ChunkSize
    /\ inFlight(tasks) = (ChunkSize + 1)..(2 * ChunkSize)
    /\ \A i \in 1..ChunkSize : tasks[i].pc = "done"

-----------------------------------------------------------------------------
(* Properties of the entries shared by the routes *)

\* the JSON text of the body c.json sends
sentBody(body) == JSON_stringify(body)

\* C29: the JSON body of GET /name/:name has the same fields and values
\* whether it is served from the cache or from the origin, whichever
\* operation stored name:<name>: a name lookup, a batch or warmCache.
C29_SameBody ==
    (out.route = "name" /\ out.status = 200) =>
        sentBody(out.body) = sentBody(nameResult(findFirst(out.name)))

\* the items of the last batch whose name has no record in the origin
Unrecorded == {i \in 1..Len(out.input) : findFirst(out.input[i].name) = Null}

\* C30: in every batch response an item whose name has no origin record has
\* gender null and confidence 0.0 and is counted in errorCount, whatever
\* earlier requests stored in the cache; confidence 1.0 occurs only for names
\* with an origin record.
C30_UnrecordedItems ==
    (out.route = "batch" /\ out.status = 200) =>
        /\ \A i \in Unrecorded :
              /\ out.results[i].gender = "null"
              /\ out.results[i].confidence = ConfNone
        /\ out.errorCount >= Cardinality(Unrecorded)
        /\ \A i \in 1..Len(out.results) :
              out.results[i].confidence = ConfCached => i \notin Unrecorded

====
